---------------------------- MODULE Spec2Model ----------------------------
(***************************************************************************)
(* Verification model of the process-execution core of cross-terminal:     *)
(*   - memory::MemoryPool<T,N>          (memory_manager.h)                 *)
(*   - core::ManagedProcess / ShellImpl (shell_impl.h)                     *)
(* Every subsystem has its own specification over a shared set of          *)
(* variables; a subsystem's actions leave the other subsystem unchanged.   *)
(***************************************************************************)
EXTENDS Integers, Naturals, Sequences, FiniteSets, TLC

(***************************************************************************)
(* Bounds of the model.                                                    *)
(***************************************************************************)
\* template parameter PoolSize of MemoryPool<T, PoolSize>
PoolSize == 3
\* sizeof(StorageBlock) in address units
BlockSize == 2
\* address of storage_[0]; the null pointer is address 0
PoolBase == 1

\* number of ManagedProcess objects the shell creates in one run
MaxProcs == 2
\* number of them it creates in the runs where every API call races
RacedProcs == 1
\* number of start() calls per ManagedProcess that get past the running_ test
MaxStarts == 2
\* number of sendInput() writes a process's input pipe takes in one run
MaxInputs == 2
\* number of bytes a child writes to its output pipes in one run
MaxOutput == 2
\* StackAllocator<StackSize>: bytes of the backing buffer
StackSize == 48
\* address of stack_[0]
StackBase == 64
\* width of size_t in bits
SizeBits == 8
\* number of regions the allocator hands out between two reset() calls
MaxRegions == 3

\* slots of each size-class pool of the MemoryManager
ClassSlots == 1
\* number of MemoryManager::allocate calls in one run
MaxCalls == 3

\* number of Terminal calls in one run
MaxTerminalCalls == 3

\* ProcessIO::BUFFER_SIZE (8192 in the source), scaled
BUFFER_SIZE == 2
\* largest chunk one append brings
MaxChunk == 3
\* number of append calls in one run
MaxAppends == 3

\* alignof(std::max_align_t)
MaxAlign == 16
\* MemoryManager::allocate: the largest size served by each pool
SmallMax == 64
MediumMax == 512
LargeMax == 4096

\* ShellImpl::ShellImpl(): next_pid_(1000)
FirstPid == 1000

\* threads that call into the pool concurrently
PoolThreads == {"m1", "m2"}

\* threads that call the shell API concurrently, and the cleanup thread
Callers == {"c1", "c2"}
CleanupThread == "cleanup"
Threads == Callers \cup {CleanupThread}

\* ManagedProcess objects, named in creation order
Objs == 1 .. MaxProcs

\* the directories that exist; the program is started in the root directory
RootDir == "/"
Dirs == {RootDir, "/home", "/tmp"}

VARIABLES
    \* ---- MemoryPool<T,N> ----
    used_,              \* std::bitset<PoolSize> used_
    next_free_,         \* std::atomic<size_t> next_free_
    allocated_count_,   \* std::atomic<size_t> allocated_count_
    pool_mutex_,        \* owner of the unique_lock on pool_mutex_, or "none"
    mpc,                \* position of each pool thread
    mslot,              \* local `slot` of a thread inside allocate()
    mptr,               \* argument `ptr` of a thread inside deallocate()
    mret,               \* last pointer returned by allocate() to each thread
    live,               \* history: slots handed out and not yet released
    freed,              \* history: slots whose bit deallocate() has cleared
    \* ---- ShellImpl / ManagedProcess ----
    next_pid_,          \* std::atomic<int> next_pid_
    nobj,               \* ManagedProcess objects constructed so far
    active_processes_,  \* the process table: pid -> ManagedProcess
    procs,              \* the fields of each ManagedProcess
    iot,                \* position and local `status` of each I/O thread
    child,              \* the OS child process behind each handle
    readers,            \* threads holding a shared_lock on processes_mutex_
    writer,             \* thread holding the unique_lock, or "none"
    cleanup_active_,    \* std::atomic<bool> cleanup_active_
    thr,                \* position and locals of each caller / cleanup thread
    hist,               \* history of what the API calls returned
    current_directory_, \* std::string current_directory_
    cwd,                \* the working directory the OS keeps for the program
    pipes,              \* the unread bytes in each child's stdout / stderr pipe
    buffer,             \* char buffer[4096] of each ioThreadFunction call
    bytes_read,         \* ssize_t bytes_read of each ioThreadFunction call
    events,             \* history: the calls each output callback received
    reads,              \* history: the chunks read() returned, per process
    \* ---- StackAllocator<StackSize> ----
    top_,               \* std::atomic<size_t> top_
    sthr,               \* position and locals of each thread in the allocator
    regions,            \* history: the regions returned since the last reset()
    \* ---- MemoryManager ----
    pools,              \* slots in use in each size-class pool / system blocks
    total_allocated_,   \* std::atomic<size_t> total_allocated_
    total_deallocated_, \* std::atomic<size_t> total_deallocated_
    peak_usage_,        \* std::atomic<size_t> peak_usage_
    mm,                 \* position and locals of each thread in the manager
    blocks,             \* blocks handed out and not yet given back
    mstat,              \* history: allocate calls made, highest usage reached
    \* ---- Terminal ----
    m_history,          \* std::unique_ptr<History> m_history: its commands
    tcall,              \* the last Terminal call and the number of calls made
    \* ---- ProcessIO, with the storage behind its buffers ----
    io_,                \* stdout_buffer_, stderr_buffer_ (the cells of each
                        \* array), stdout_size_, stderr_size_
    pio                 \* history: appends made, the last call, whether
                        \* clear() ran, whether a memcpy left its array

poolVars == <<used_, next_free_, allocated_count_, pool_mutex_, mpc, mslot,
              mptr, mret, live, freed>>

dirVars == <<current_directory_, cwd>>

streamVars == <<pipes, buffer, bytes_read, events, reads>>

stackVars == <<top_, sthr, regions>>

managerVars == <<pools, total_allocated_, total_deallocated_, peak_usage_,
                 mm, blocks, mstat>>

terminalVars == <<m_history, tcall>>

ioVars == <<io_, pio>>

memVars == <<stackVars, managerVars, terminalVars, ioVars>>

shellVars == <<next_pid_, nobj, active_processes_, procs, iot, child, readers,
               writer, cleanup_active_, thr, hist, dirVars, streamVars>>

vars == <<poolVars, shellVars, memVars>>

Slots == 0 .. (PoolSize - 1)
NullPtr == 0

\* reinterpret_cast<T*>(&storage_[slot])
SlotAddr(slot) == PoolBase + slot * BlockSize
storage_begin == SlotAddr(0)
storage_end == SlotAddr(PoolSize)

\* pointers a caller may pass to deallocate(): null, one address below the
\* storage, every address inside it (slot starts and interior addresses) and
\* the one-past-the-end address
Pointers == {NullPtr} \cup ((storage_begin - 1) .. storage_end)

Popcount(bits) == Cardinality({i \in DOMAIN bits : bits[i]})

(***************************************************************************)
(* MemoryPool::find_free_slot: scan from the cursor, then wrap around.     *)
(* Yields the slot found (PoolSize when exhausted) and the new cursor.     *)
(***************************************************************************)
\* the scan without the used_ test: always the slot under the cursor
FindFreeSlotNoCheck(bits, cursor) ==
    [slot |-> cursor, cursor |-> (cursor + 1) % PoolSize]

find_free_slot(bits, cursor) ==
    LET upper == {i \in Slots : i >= cursor /\ ~bits[i]}
        lower == {i \in Slots : i < cursor /\ ~bits[i]}
        Min(S) == CHOOSE x \in S : \A y \in S : x <= y
    IN  IF upper # {}
          THEN [slot |-> Min(upper), cursor |-> (Min(upper) + 1) % PoolSize]
        ELSE IF lower # {}
          THEN [slot |-> Min(lower), cursor |-> (Min(lower) + 1) % PoolSize]
        ELSE [slot |-> PoolSize, cursor |-> cursor]

\* deallocate(): slot = (ptr_addr - storage_begin) / sizeof(StorageBlock)
SlotOf(ptr) == (ptr - storage_begin) \div BlockSize

\* deallocate(): the pointer passes the bounds check
InPool(ptr) == ptr >= storage_begin /\ ptr < storage_end

\* the guard without the used_[slot] test
ReleasesNoUsedCheck(bits, ptr) ==
    ptr # NullPtr /\ InPool(ptr) /\ SlotOf(ptr) < PoolSize

\* deallocate(): the guard under which the bit is cleared
Releases(bits, ptr) ==
    ptr # NullPtr /\ InPool(ptr) /\ SlotOf(ptr) < PoolSize /\ bits[SlotOf(ptr)]

\* the cursor left where it is
KeepCursor(slot, cursor) == cursor

\* deallocate(): if (slot < next_free_.load()) next_free_.store(slot)
NextFreeHint(slot, cursor) == IF slot < cursor THEN slot ELSE cursor

PoolInit ==
    /\ used_ = [i \in Slots |-> FALSE]
    /\ next_free_ = 0
    /\ allocated_count_ = 0
    /\ pool_mutex_ = "none"
    /\ mpc = [t \in PoolThreads |-> "idle"]
    /\ mslot = [t \in PoolThreads |-> 0]
    /\ mptr = [t \in PoolThreads |-> NullPtr]
    /\ mret = [t \in PoolThreads |-> NullPtr]
    /\ live = {}
    /\ freed = {}

(***************************************************************************)
(* allocate(): take the lock and scan (the scan stores the cursor).        *)
(***************************************************************************)
AllocateLock(t) ==
    /\ mpc[t] = "idle"
    /\ pool_mutex_ = "none"
    /\ pool_mutex_' = t
    /\ LET r == find_free_slot(used_, next_free_)
       IN  /\ mslot' = [mslot EXCEPT ![t] = r.slot]
           /\ next_free_' = r.cursor
    /\ mpc' = [mpc EXCEPT ![t] = "alloc"]
    /\ UNCHANGED <<used_, allocated_count_, mptr, mret, live, freed>>
    /\ UNCHANGED <<shellVars, memVars>>

(***************************************************************************)
(* allocate(): null when exhausted, otherwise mark the slot, count it,     *)
(* release the lock and return its address.                                *)
(***************************************************************************)
AllocateReturn(t) ==
    /\ mpc[t] = "alloc"
    /\ pool_mutex_ = t
    /\ IF mslot[t] >= PoolSize
         THEN /\ mret' = [mret EXCEPT ![t] = NullPtr]
              /\ UNCHANGED <<used_, allocated_count_, live>>
         ELSE /\ used_' = [used_ EXCEPT ![mslot[t]] = TRUE]
              /\ allocated_count_' = allocated_count_ + 1
              /\ mret' = [mret EXCEPT ![t] = SlotAddr(mslot[t])]
              /\ live' = live \cup {mslot[t]}
    /\ pool_mutex_' = "none"
    /\ mpc' = [mpc EXCEPT ![t] = "idle"]
    /\ mslot' = [mslot EXCEPT ![t] = 0]
    /\ UNCHANGED <<next_free_, mptr, freed>>
    /\ UNCHANGED <<shellVars, memVars>>

(***************************************************************************)
(* deallocate(ptr): a null pointer returns before the lock is taken.       *)
(***************************************************************************)
DeallocateLock(t, ptr) ==
    /\ mpc[t] = "idle"
    /\ IF ptr = NullPtr
         THEN UNCHANGED <<pool_mutex_, mpc, mptr>>
         ELSE /\ pool_mutex_ = "none"
              /\ pool_mutex_' = t
              /\ mptr' = [mptr EXCEPT ![t] = ptr]
              /\ mpc' = [mpc EXCEPT ![t] = "dealloc"]
    /\ UNCHANGED <<used_, next_free_, allocated_count_, mslot, mret, live,
                   freed>>
    /\ UNCHANGED <<shellVars, memVars>>

(***************************************************************************)
(* deallocate(ptr): bounds check, clear the bit, count down, pull the      *)
(* cursor back, release the lock.                                          *)
(***************************************************************************)
DeallocateReturn(t) ==
    /\ mpc[t] = "dealloc"
    /\ pool_mutex_ = t
    /\ IF Releases(used_, mptr[t])
         THEN LET slot == SlotOf(mptr[t])
              IN  /\ used_' = [used_ EXCEPT ![slot] = FALSE]
                  /\ allocated_count_' = allocated_count_ - 1
                  /\ next_free_' = NextFreeHint(slot, next_free_)
                  /\ live' = live \ {slot}
                  /\ freed' = freed \cup {slot}
         ELSE UNCHANGED <<used_, allocated_count_, next_free_, live, freed>>
    /\ pool_mutex_' = "none"
    /\ mpc' = [mpc EXCEPT ![t] = "idle"]
    /\ mptr' = [mptr EXCEPT ![t] = NullPtr]
    /\ UNCHANGED <<mslot, mret>>
    /\ UNCHANGED <<shellVars, memVars>>

\* size_t allocated() / available()
allocated == allocated_count_
available == PoolSize - allocated

Allocate == \E t \in PoolThreads : AllocateLock(t) \/ AllocateReturn(t)
Deallocate ==
    \E t \in PoolThreads :
        \/ \E ptr \in Pointers : DeallocateLock(t, ptr)
        \/ DeallocateReturn(t)

PoolNext == Allocate \/ Deallocate


(***************************************************************************)
(* ShellImpl / ManagedProcess.                                             *)
(***************************************************************************)
Terminal == {"Completed", "Failed", "Terminated"}
ProcessStates == {"NotStarted", "Running", "Suspended"} \cup Terminal

\* ProcessInfo::ProcessInfo(): pid(0), state(NotStarted), exit_code(0),
\* start_time(0), end_time(0)
DefaultInfo == [pid |-> 0, state |-> "NotStarted", exit_code |-> 0,
                end_time |-> 0]

\* a ManagedProcess that has not been constructed yet
\* stdin_written: writes accepted by the pipe behind handle_.stdin_fd;
\* stdout_buffer_, stderr_buffer_: the bytes held by the ProcessIO io_
NoProc == [life |-> "none", info_ |-> DefaultInfo, running_ |-> FALSE,
           io_thread_active_ |-> FALSE, joinable |-> FALSE, handle_pid |-> -1,
           stdin_written |-> 0, stdout_buffer_ |-> <<>>,
           stderr_buffer_ |-> <<>>]

\* ManagedProcess::ManagedProcess(pid, command, args) with a default
\* ProcessHandle (pid = -1)
NewProc(pid) == [life |-> "alive",
                 info_ |-> [DefaultInfo EXCEPT !.pid = pid],
                 running_ |-> FALSE, io_thread_active_ |-> FALSE,
                 joinable |-> FALSE, handle_pid |-> -1,
                 stdin_written |-> 0, stdout_buffer_ |-> <<>>,
                 stderr_buffer_ |-> <<>>]

\* a ManagedProcess after its destructor has run: only the fact that it is
\* gone, and whether its std::thread was still joinable, are kept
DestroyedProc(p) == [NoProc EXCEPT !.life = "destroyed",
                                   !.joinable = p.joinable]

Range(f) == {f[x] : x \in DOMAIN f}
EmptyTable == [k \in {} |-> 0]

\* ManagedProcess::getInfo()
getInfo(o) == procs[o].info_

\* ManagedProcess::isRunning()
isRunning(o) == procs[o].running_

\* completion judged by running_ instead of by the state
IsNotRunning(o) == ~procs[o].running_

\* ManagedProcess::isComplete()
isComplete(o) == procs[o].info_.state \in Terminal

\* ShellImpl::getProcessInfo(pid): the entry's info, or a default ProcessInfo
\* carrying the pid that was asked for
getProcessInfo(pid) ==
    IF pid \in DOMAIN active_processes_
      THEN getInfo(active_processes_[pid])
      ELSE [DefaultInfo EXCEPT !.pid = pid]

\* the shared_lock / unique_lock on processes_mutex_ can be taken
CanLockShared == writer = "none"
CanLockUnique == writer = "none" /\ readers = {}

(***************************************************************************)
(* The OS child process, as kill(2) and waitpid(2) see it.                 *)
(*   st: "none" (no child), "alive", "stopped", "zombie" (exited, not yet  *)
(*   reaped), "reaped";  status: how it exited.                            *)
(***************************************************************************)
NoChild == [st |-> "none", status |-> "none"]

\* a kill that reports success whatever the handle holds
KillNeverFails(o) == TRUE

\* kill(handle_.pid, sig) == 0: the handle holds a pid and the pid names a
\* process that has not been reaped
KillSucceeds(o) ==
    procs[o].handle_pid > 0 /\ child[o].st \in {"alive", "stopped", "zombie"}

\* what a delivered signal does to the child; SIGTERM may kill it, be handled
\* (the child exits on its own terms) or be ignored
KillEffect(c, sig) ==
    CASE sig = "SIGKILL" ->
           IF c.st \in {"alive", "stopped"}
             THEN {[st |-> "zombie", status |-> "sigkill"]} ELSE {c}
      [] sig = "SIGTERM" ->
           IF c.st = "alive"
             THEN {[st |-> "zombie", status |-> "sigterm"],
                   [st |-> "zombie", status |-> "exit0"],
                   [st |-> "zombie", status |-> "exit1"], c}
             ELSE {c}
      [] sig = "SIGSTOP" ->
           IF c.st = "alive" THEN {[c EXCEPT !.st = "stopped"]} ELSE {c}
      [] sig = "SIGCONT" ->
           IF c.st = "stopped" THEN {[c EXCEPT !.st = "alive"]} ELSE {c}

\* WIFEXITED / WEXITSTATUS / WIFSIGNALED / WTERMSIG of a wait status
WIFEXITED(status) == status \in {"exit0", "exit1"}
WEXITSTATUS(status) == IF status = "exit0" THEN 0 ELSE 1
WTERMSIG(status) == IF status = "sigkill" THEN 9 ELSE 15

\* ioThreadFunction, reap check: exit_code and state from the wait status
ReapInfo(info, status) ==
    IF WIFEXITED(status)
      THEN [info EXCEPT !.exit_code = WEXITSTATUS(status),
                        !.state = IF WEXITSTATUS(status) = 0
                                    THEN "Completed" ELSE "Failed"]
      ELSE [info EXCEPT !.exit_code = WTERMSIG(status),
                        !.state = "Terminated"]

\* the child exits on its own
ChildExits(o) ==
    /\ child[o].st = "alive"
    /\ \E s \in {"exit0", "exit1"} :
           child' = [child EXCEPT ![o] = [st |-> "zombie", status |-> s]]
    /\ UNCHANGED <<next_pid_, nobj, active_processes_, procs, iot, readers,
                   writer, cleanup_active_, thr, hist>>
    /\ UNCHANGED <<dirVars, streamVars, poolVars, memVars>>

(***************************************************************************)
(* ManagedProcess::ioThreadFunction, one thread per started process.       *)
(***************************************************************************)
\* while (io_thread_active_.load())
IoLoop(o) ==
    /\ iot[o].pc = "loop"
    /\ iot' = [iot EXCEPT ![o].pc = IF procs[o].io_thread_active_
                                      THEN "select" ELSE "exited"]
    /\ UNCHANGED <<next_pid_, nobj, active_processes_, procs, child, readers,
                   writer, cleanup_active_, thr, hist>>
    /\ UNCHANGED <<dirVars, streamVars, poolVars, memVars>>

\* one iteration: without descriptors sleep and continue; otherwise select,
\* then waitpid(handle_.pid, &status, WNOHANG)
IoSelect(o) ==
    /\ iot[o].pc = "select"
    /\ IF procs[o].handle_pid > 0 /\ child[o].st = "zombie"
         THEN /\ child' = [child EXCEPT ![o].st = "reaped"]
              /\ iot' = [iot EXCEPT ![o].pc = "store_running",
                                    ![o].status = child[o].status]
         ELSE /\ iot' = [iot EXCEPT ![o].pc = "loop"]
              /\ UNCHANGED child
    /\ UNCHANGED <<next_pid_, nobj, active_processes_, procs, readers,
                   writer, cleanup_active_, thr, hist>>
    /\ UNCHANGED <<dirVars, streamVars, poolVars, memVars>>

\* the reap step without the store
IoStoreRunningSkipped(p) == p

\* running_.store(false)
IoStoreRunningField(p) == [p EXCEPT !.running_ = FALSE]

IoStoreRunning(o) ==
    /\ iot[o].pc = "store_running"
    /\ procs' = [procs EXCEPT ![o] = IoStoreRunningField(procs[o])]
    /\ iot' = [iot EXCEPT ![o].pc = "end_time"]
    /\ UNCHANGED <<next_pid_, nobj, active_processes_, child, readers,
                   writer, cleanup_active_, thr, hist>>
    /\ UNCHANGED <<dirVars, streamVars, poolVars, memVars>>

\* info_.end_time = now
IoEndTime(o) ==
    /\ iot[o].pc = "end_time"
    /\ procs' = [procs EXCEPT ![o].info_.end_time = 1]
    /\ iot' = [iot EXCEPT ![o].pc = "state"]
    /\ UNCHANGED <<next_pid_, nobj, active_processes_, child, readers,
                   writer, cleanup_active_, thr, hist>>
    /\ UNCHANGED <<dirVars, streamVars, poolVars, memVars>>

\* info_.exit_code = ...; info_.state = ...
IoState(o) ==
    /\ iot[o].pc = "state"
    /\ procs' = [procs EXCEPT ![o].info_ = ReapInfo(procs[o].info_,
                                                    iot[o].status)]
    /\ iot' = [iot EXCEPT ![o].pc = "notify"]
    /\ UNCHANGED <<next_pid_, nobj, active_processes_, child, readers,
                   writer, cleanup_active_, thr, hist>>
    /\ UNCHANGED <<dirVars, streamVars, poolVars, memVars>>

\* notifyCompletion(): the callback runs if one was registered
Notified(o) ==
    IF hist.kind[o] = "async"
      THEN [hist EXCEPT !.completions[o] = @ + 1] ELSE hist

\* notifyCompletion(); break;
IoNotify(o) ==
    /\ iot[o].pc = "notify"
    /\ hist' = Notified(o)
    /\ iot' = [iot EXCEPT ![o].pc = "exited", ![o].status = "none"]
    /\ UNCHANGED <<next_pid_, nobj, active_processes_, procs, child, readers,
                   writer, cleanup_active_, thr>>
    /\ UNCHANGED <<dirVars, streamVars, poolVars, memVars>>

ioThreadFunction(o) ==
    \/ IoLoop(o) \/ IoSelect(o) \/ IoStoreRunning(o) \/ IoEndTime(o)
    \/ IoState(o) \/ IoNotify(o)

\* notifyCompletion() with a completion callback that calls back into the
\* shell: completion_callback_(info_) is entered
IoCallback(o) ==
    /\ iot[o].pc = "notify"
    /\ iot' = [iot EXCEPT ![o].pc = IF hist.kind[o] = "async"
                                      THEN "callback" ELSE "exited",
                          ![o].status = IF hist.kind[o] = "async"
                                          THEN @ ELSE "none"]
    /\ UNCHANGED <<next_pid_, nobj, active_processes_, procs, child, readers,
                   writer, cleanup_active_, thr, hist>>
    /\ UNCHANGED <<dirVars, streamVars, poolVars, memVars>>

\* the callback's getProcessInfo(pid) or readOutput(pid) takes the
\* shared_lock on processes_mutex_, looks the entry up and releases the lock;
\* the callback returns; break;
IoCallbackLookup(o) ==
    /\ iot[o].pc = "callback"
    /\ CanLockShared
    /\ hist' = Notified(o)
    /\ iot' = [iot EXCEPT ![o].pc = "exited", ![o].status = "none"]
    /\ UNCHANGED <<next_pid_, nobj, active_processes_, procs, child, readers,
                   writer, cleanup_active_, thr>>
    /\ UNCHANGED <<dirVars, streamVars, poolVars, memVars>>

\* the I/O thread of a process whose completion callback calls the shell
ioThreadWithCallback(o) ==
    \/ IoLoop(o) \/ IoSelect(o) \/ IoStoreRunning(o) \/ IoEndTime(o)
    \/ IoState(o) \/ IoCallback(o) \/ IoCallbackLookup(o)

(***************************************************************************)
(* Threads: position, call stack (return labels) and locals.               *)
(***************************************************************************)
IdleThr == [pc |-> "idle", stack |-> <<>>, cur |-> 0, pid |-> 0,
            force |-> FALSE, result |-> FALSE, todo |-> {},
            info |-> DefaultInfo, out |-> <<>>, max_bytes |-> 0,
            op |-> "none", args |-> <<>>]

\* return from terminate() / ~ManagedProcess() with a result
Return(t, res) == [thr[t] EXCEPT !.pc = Head(thr[t].stack),
                                 !.stack = Tail(thr[t].stack),
                                 !.result = res]

(***************************************************************************)
(* ManagedProcess::terminate(force), run by thread t on object thr[t].cur. *)
(***************************************************************************)
\* if (!running_.load()) return true;  success = kill(handle_.pid, signal) == 0
Term(t) ==
    /\ thr[t].pc = "term"
    /\ LET o == thr[t].cur
           sig == IF thr[t].force THEN "SIGKILL" ELSE "SIGTERM"
       IN  IF ~procs[o].running_
             THEN /\ thr' = [thr EXCEPT ![t] = Return(t, TRUE)]
                  /\ UNCHANGED child
           ELSE IF KillSucceeds(o)
             THEN /\ \E c \in KillEffect(child[o], sig) :
                         child' = [child EXCEPT ![o] = c]
                  /\ thr' = [thr EXCEPT ![t].pc = "term_running"]
           ELSE /\ thr' = [thr EXCEPT ![t] = Return(t, FALSE)]
                /\ UNCHANGED child
    /\ UNCHANGED <<next_pid_, nobj, active_processes_, procs, iot, readers,
                   writer, cleanup_active_, hist>>
    /\ UNCHANGED <<dirVars, streamVars, poolVars, memVars>>

\* running_.store(false)
TermRunning(t) ==
    /\ thr[t].pc = "term_running"
    /\ procs' = [procs EXCEPT ![thr[t].cur].running_ = FALSE]
    /\ thr' = [thr EXCEPT ![t].pc = "term_state"]
    /\ UNCHANGED <<next_pid_, nobj, active_processes_, iot, child, readers,
                   writer, cleanup_active_, hist>>
    /\ UNCHANGED <<dirVars, streamVars, poolVars, memVars>>

\* info_.state = Terminated; info_.end_time = now; if (io_thread_active_.load())
TermState(t) ==
    /\ thr[t].pc = "term_state"
    /\ LET o == thr[t].cur
       IN  /\ procs' = [procs EXCEPT ![o].info_.state = "Terminated",
                                     ![o].info_.end_time = 1]
           /\ thr' = [thr EXCEPT ![t].pc = IF procs[o].io_thread_active_
                                             THEN "term_stop"
                                             ELSE "term_notify"]
    /\ UNCHANGED <<next_pid_, nobj, active_processes_, iot, child, readers,
                   writer, cleanup_active_, hist>>
    /\ UNCHANGED <<dirVars, streamVars, poolVars, memVars>>

\* io_thread_active_.store(false); if (io_thread_.joinable())
TermStop(t) ==
    /\ thr[t].pc = "term_stop"
    /\ LET o == thr[t].cur
       IN  /\ procs' = [procs EXCEPT ![o].io_thread_active_ = FALSE]
           /\ thr' = [thr EXCEPT ![t].pc = IF procs[o].joinable
                                             THEN "term_join"
                                             ELSE "term_notify"]
    /\ UNCHANGED <<next_pid_, nobj, active_processes_, iot, child, readers,
                   writer, cleanup_active_, hist>>
    /\ UNCHANGED <<dirVars, streamVars, poolVars, memVars>>

\* io_thread_.join(): blocks until the I/O thread has left its function
TermJoin(t) ==
    /\ thr[t].pc = "term_join"
    /\ iot[thr[t].cur].pc = "exited"
    /\ procs' = [procs EXCEPT ![thr[t].cur].joinable = FALSE]
    /\ thr' = [thr EXCEPT ![t].pc = "term_notify"]
    /\ UNCHANGED <<next_pid_, nobj, active_processes_, iot, child, readers,
                   writer, cleanup_active_, hist>>
    /\ UNCHANGED <<dirVars, streamVars, poolVars, memVars>>

\* notifyCompletion(); return success;
TermNotify(t) ==
    /\ thr[t].pc = "term_notify"
    /\ hist' = Notified(thr[t].cur)
    /\ thr' = [thr EXCEPT ![t] = Return(t, TRUE)]
    /\ UNCHANGED <<next_pid_, nobj, active_processes_, procs, iot, child,
                   readers, writer, cleanup_active_>>
    /\ UNCHANGED <<dirVars, streamVars, poolVars, memVars>>

terminate(t) ==
    \/ Term(t) \/ TermRunning(t) \/ TermState(t) \/ TermStop(t)
    \/ TermJoin(t) \/ TermNotify(t)

(***************************************************************************)
(* ManagedProcess::~ManagedProcess(), run by thread t on thr[t].cur.       *)
(***************************************************************************)
\* if (running_.load()) terminate(true);
Dtor(t) ==
    /\ thr[t].pc = "dtor"
    /\ thr' = [thr EXCEPT ![t] =
                 IF procs[thr[t].cur].running_
                   THEN [@ EXCEPT !.pc = "term", !.force = TRUE,
                                  !.stack = <<"dtor_join">> \o @]
                   ELSE [@ EXCEPT !.pc = "dtor_join"]]
    /\ UNCHANGED <<next_pid_, nobj, active_processes_, procs, iot, child,
                   readers, writer, cleanup_active_, hist>>
    /\ UNCHANGED <<dirVars, streamVars, poolVars, memVars>>

\* if (io_thread_active_.load() && io_thread_.joinable())
\*     io_thread_active_.store(false);
DtorJoin(t) ==
    /\ thr[t].pc = "dtor_join"
    /\ LET o == thr[t].cur
       IN  IF procs[o].io_thread_active_ /\ procs[o].joinable
             THEN /\ procs' = [procs EXCEPT ![o].io_thread_active_ = FALSE]
                  /\ thr' = [thr EXCEPT ![t].pc = "dtor_wait"]
             ELSE /\ procs' = [procs EXCEPT ![o] = DestroyedProc(procs[o])]
                  /\ thr' = [thr EXCEPT ![t] = Return(t, thr[t].result)]
    /\ UNCHANGED <<next_pid_, nobj, active_processes_, iot, child, readers,
                   writer, cleanup_active_, hist>>
    /\ UNCHANGED <<dirVars, streamVars, poolVars, memVars>>

\* io_thread_.join(); the object is gone afterwards
DtorWait(t) ==
    /\ thr[t].pc = "dtor_wait"
    /\ iot[thr[t].cur].pc = "exited"
    /\ procs' = [procs EXCEPT ![thr[t].cur] =
                    DestroyedProc([procs[thr[t].cur] EXCEPT
                                      !.joinable = FALSE])]
    /\ thr' = [thr EXCEPT ![t] = Return(t, thr[t].result)]
    /\ UNCHANGED <<next_pid_, nobj, active_processes_, iot, child, readers,
                   writer, cleanup_active_, hist>>
    /\ UNCHANGED <<dirVars, streamVars, poolVars, memVars>>

Destructor(t) == Dtor(t) \/ DtorJoin(t) \/ DtorWait(t)

(***************************************************************************)
(* ShellImpl::executeSync / executeAsync / executeInteractive.             *)
(***************************************************************************)
\* createProcess(): int pid = next_pid_.load(); make_unique<ManagedProcess>
createProcess(t, k) ==
    /\ nobj < MaxProcs
    /\ nobj' = nobj + 1
    /\ procs' = [procs EXCEPT ![nobj + 1] = NewProc(next_pid_)]
    /\ hist' = [hist EXCEPT !.kind[nobj + 1] = k]
    /\ thr' = [thr EXCEPT ![t].pc = "exec_start", ![t].cur = nobj + 1]

\* an execute call that reports a started process for any command
StartedValue(k) ==
    [info |-> [DefaultInfo EXCEPT !.state = "Running"], pid |-> FirstPid]

\* the returns after `!parsed.isValid()`: executeSync a ProcessInfo with
\* state Failed and exit_code -1, executeAsync / executeInteractive -1
InvalidValue(k) ==
    [info |-> [DefaultInfo EXCEPT !.state = "Failed", !.exit_code = -1],
     pid |-> IF k = "sync" THEN 0 ELSE -1]

\* parse; an invalid command returns Failed / -1 and changes nothing
ExecuteBegin(t, k, valid) ==
    /\ thr[t].pc = "idle"
    /\ IF valid THEN createProcess(t, k)
       ELSE /\ thr' = [thr EXCEPT ![t] =
                         [IdleThr EXCEPT !.pc = "exec_ret", !.op = k,
                                         !.info = InvalidValue(k).info,
                                         !.pid = InvalidValue(k).pid]]
            /\ UNCHANGED <<nobj, procs, hist>>
    /\ UNCHANGED <<next_pid_, active_processes_, iot, child, readers, writer,
                   cleanup_active_>>
    /\ UNCHANGED <<dirVars, streamVars, poolVars, memVars>>

executeSync(t) == \E valid \in BOOLEAN : ExecuteBegin(t, "sync", valid)
executeAsync(t) == \E valid \in BOOLEAN : ExecuteBegin(t, "async", valid)
executeInteractive(t) ==
    \E valid \in BOOLEAN : ExecuteBegin(t, "interactive", valid)

\* the platform layer either populates the ProcessHandle (a child runs,
\* descriptors are open) or leaves the default handle
SpawnOutcomes == {TRUE, FALSE}

\* a load in place of the fetch_add: the counter is not advanced
FetchAddStale(n) == [value |-> n, next |-> n]

\* int pid = next_pid_.fetch_add(1): the value before the increment
fetch_add(n) == [value |-> n, next |-> n + 1]

\* ManagedProcess::start(): state Running, running_, io_thread_active_, thread
start(p) == [p EXCEPT !.info_.state = "Running", !.running_ = TRUE,
                      !.io_thread_active_ = TRUE, !.joinable = TRUE]

\* int pid = next_pid_.fetch_add(1); process->start(options);
ExecStart(t) ==
    /\ thr[t].pc = "exec_start"
    /\ LET o == thr[t].cur
           fa == fetch_add(next_pid_)
       IN  /\ next_pid_' = fa.next
           /\ \E populated \in SpawnOutcomes :
                /\ procs' = [procs EXCEPT ![o] =
                               [start(procs[o]) EXCEPT !.handle_pid =
                                   IF populated THEN o ELSE -1]]
                /\ child' = [child EXCEPT ![o] =
                               IF populated
                                 THEN [st |-> "alive", status |-> "none"]
                                 ELSE NoChild]
           /\ iot' = [iot EXCEPT ![o].pc = "loop"]
           /\ hist' = [hist EXCEPT !.key_of[o] = fa.value]
           /\ thr' = [thr EXCEPT ![t].pid = fa.value,
                                 ![t].pc = IF hist.kind[o] = "sync"
                                             THEN "sync_poll"
                                             ELSE "exec_insert"]
    /\ UNCHANGED <<nobj, active_processes_, readers, writer, cleanup_active_>>
    /\ UNCHANGED <<dirVars, streamVars, poolVars, memVars>>

\* { unique_lock; active_processes_[pid] = std::move(process); } return pid;
ExecInsert(t) ==
    /\ thr[t].pc = "exec_insert"
    /\ CanLockUnique
    /\ active_processes_' =
           [k \in DOMAIN active_processes_ \cup {thr[t].pid} |->
               IF k = thr[t].pid THEN thr[t].cur ELSE active_processes_[k]]
    /\ hist' = [hist EXCEPT !.returned = @ \cup {thr[t].pid}]
    /\ thr' = [thr EXCEPT ![t] = IdleThr]
    /\ UNCHANGED <<next_pid_, nobj, procs, iot, child, readers, writer,
                   cleanup_active_>>
    /\ UNCHANGED <<dirVars, streamVars, poolVars, memVars>>

\* while (process->isRunning()) sleep(10ms);
SyncPoll(t) ==
    /\ thr[t].pc = "sync_poll"
    /\ ~isRunning(thr[t].cur)
    /\ thr' = [thr EXCEPT ![t].pc = "sync_info"]
    /\ UNCHANGED <<next_pid_, nobj, active_processes_, procs, iot, child,
                   readers, writer, cleanup_active_, hist>>
    /\ UNCHANGED <<dirVars, streamVars, poolVars, memVars>>

\* return process->getInfo();  (the copy is made, then the local unique_ptr
\* destroys the ManagedProcess)
SyncInfo(t) ==
    /\ thr[t].pc = "sync_info"
    /\ thr' = [thr EXCEPT ![t].info = getInfo(thr[t].cur),
                          ![t].pc = "dtor",
                          ![t].stack = <<"sync_ret">>]
    /\ UNCHANGED <<next_pid_, nobj, active_processes_, procs, iot, child,
                   readers, writer, cleanup_active_, hist>>
    /\ UNCHANGED <<dirVars, streamVars, poolVars, memVars>>

\* executeSync has returned thr[t].info to its caller
SyncRet(t) ==
    /\ thr[t].pc = "sync_ret"
    /\ thr' = [thr EXCEPT ![t] = IdleThr]
    /\ UNCHANGED <<next_pid_, nobj, active_processes_, procs, iot, child,
                   readers, writer, cleanup_active_, hist>>
    /\ UNCHANGED <<dirVars, streamVars, poolVars, memVars>>

\* executeSync / executeAsync / executeInteractive return thr[t].info or
\* thr[t].pid for a command that did not parse
ExecRet(t) ==
    /\ thr[t].pc = "exec_ret"
    /\ thr' = [thr EXCEPT ![t] = IdleThr]
    /\ UNCHANGED <<next_pid_, nobj, active_processes_, procs, iot, child,
                   readers, writer, cleanup_active_, hist>>
    /\ UNCHANGED <<dirVars, streamVars, poolVars, memVars>>

ExecuteSteps(t) ==
    \/ ExecStart(t) \/ ExecInsert(t) \/ SyncPoll(t) \/ SyncInfo(t)
    \/ SyncRet(t) \/ ExecRet(t)

(***************************************************************************)
(* ShellImpl process control: every call looks the pid up under a          *)
(* shared_lock that it holds until it returns.                             *)
(***************************************************************************)
\* pids a caller may ask about: every pid the counter can issue in a run and
\* one that it never issues
PidArgs == FirstPid .. (FirstPid + MaxProcs)

\* getProcessInfo(pid), polled by a caller
PollProcessInfo(t, pid) ==
    /\ thr[t].pc = "idle"
    /\ CanLockShared
    /\ hist' = [hist EXCEPT !.seen_terminal =
                   IF getProcessInfo(pid).state \in Terminal
                     THEN @ \cup {pid} ELSE @]
    /\ UNCHANGED <<next_pid_, nobj, active_processes_, procs, iot, child,
                   readers, writer, cleanup_active_, thr>>
    /\ UNCHANGED <<dirVars, streamVars, poolVars, memVars>>

\* terminateProcess(pid, force): unknown pid -> false, else terminate(force)
terminateProcess(t, pid, force) ==
    /\ thr[t].pc = "idle"
    /\ CanLockShared
    /\ IF pid \in DOMAIN active_processes_
         THEN /\ readers' = readers \cup {t}
              /\ thr' = [thr EXCEPT ![t] =
                           [IdleThr EXCEPT !.pc = "term",
                                           !.stack = <<"tp_ret">>,
                                           !.cur = active_processes_[pid],
                                           !.pid = pid, !.force = force]]
         ELSE UNCHANGED <<readers, thr>>
    /\ UNCHANGED <<next_pid_, nobj, active_processes_, procs, iot, child,
                   writer, cleanup_active_, hist>>
    /\ UNCHANGED <<dirVars, streamVars, poolVars, memVars>>

\* terminateProcess returns thr[t].result and releases the shared_lock
TpRet(t) ==
    /\ thr[t].pc = "tp_ret"
    /\ readers' = readers \ {t}
    /\ hist' = [hist EXCEPT !.term_true =
                   IF thr[t].result /\ thr[t].force
                     THEN @ \cup {thr[t].pid} ELSE @]
    /\ thr' = [thr EXCEPT ![t] = IdleThr]
    /\ UNCHANGED <<next_pid_, nobj, active_processes_, procs, iot, child,
                   writer, cleanup_active_>>
    /\ UNCHANGED <<dirVars, streamVars, poolVars, memVars>>

\* suspendProcess(pid) -> ManagedProcess::suspend():
\* if (!running_) return false; if (handle_.pid > 0 && kill(SIGSTOP) == 0)
suspendProcess(t, pid) ==
    /\ thr[t].pc = "idle"
    /\ CanLockShared
    /\ IF /\ pid \in DOMAIN active_processes_
          /\ procs[active_processes_[pid]].running_
          /\ KillSucceeds(active_processes_[pid])
         THEN LET o == active_processes_[pid]
              IN  /\ \E c \in KillEffect(child[o], "SIGSTOP") :
                         child' = [child EXCEPT ![o] = c]
                  /\ readers' = readers \cup {t}
                  /\ thr' = [thr EXCEPT ![t] =
                               [IdleThr EXCEPT !.pc = "susp_state",
                                               !.cur = o, !.pid = pid]]
         ELSE UNCHANGED <<child, readers, thr>>
    /\ UNCHANGED <<next_pid_, nobj, active_processes_, procs, iot, writer,
                   cleanup_active_, hist>>
    /\ UNCHANGED <<dirVars, streamVars, poolVars, memVars>>

\* info_.state = Suspended; return true;
SuspState(t) ==
    /\ thr[t].pc = "susp_state"
    /\ procs' = [procs EXCEPT ![thr[t].cur].info_.state = "Suspended"]
    /\ readers' = readers \ {t}
    /\ thr' = [thr EXCEPT ![t] = IdleThr]
    /\ UNCHANGED <<next_pid_, nobj, active_processes_, iot, child, writer,
                   cleanup_active_, hist>>
    /\ UNCHANGED <<dirVars, streamVars, poolVars, memVars>>

\* resumeProcess(pid) -> ManagedProcess::resume():
\* if (info_.state != Suspended) return false; kill(SIGCONT) == 0
resumeProcess(t, pid) ==
    /\ thr[t].pc = "idle"
    /\ CanLockShared
    /\ IF /\ pid \in DOMAIN active_processes_
          /\ procs[active_processes_[pid]].info_.state = "Suspended"
          /\ KillSucceeds(active_processes_[pid])
         THEN LET o == active_processes_[pid]
              IN  /\ \E c \in KillEffect(child[o], "SIGCONT") :
                         child' = [child EXCEPT ![o] = c]
                  /\ readers' = readers \cup {t}
                  /\ thr' = [thr EXCEPT ![t] =
                               [IdleThr EXCEPT !.pc = "res_state",
                                               !.cur = o, !.pid = pid]]
         ELSE UNCHANGED <<child, readers, thr>>
    /\ UNCHANGED <<next_pid_, nobj, active_processes_, procs, iot, writer,
                   cleanup_active_, hist>>
    /\ UNCHANGED <<dirVars, streamVars, poolVars, memVars>>

\* info_.state = Running; return true;
ResState(t) ==
    /\ thr[t].pc = "res_state"
    /\ procs' = [procs EXCEPT ![thr[t].cur].info_.state = "Running"]
    /\ readers' = readers \ {t}
    /\ thr' = [thr EXCEPT ![t] = IdleThr]
    /\ UNCHANGED <<next_pid_, nobj, active_processes_, iot, child, writer,
                   cleanup_active_, hist>>
    /\ UNCHANGED <<dirVars, streamVars, poolVars, memVars>>

\* remove every entry that holds object o
Erase(table, o) ==
    [k \in {x \in DOMAIN table : table[x] # o} |-> table[k]]

(***************************************************************************)
(* ShellImpl::initialize / shutdown.                                       *)
(***************************************************************************)
\* cleanup_active_.store(true); cleanup_thread_ = std::thread(...)
initialize(t) ==
    /\ thr[t].pc = "idle"
    /\ thr[CleanupThread].pc = "none"
    /\ ~cleanup_active_
    /\ cleanup_active_' = TRUE
    /\ thr' = [thr EXCEPT ![CleanupThread].pc = "cl_top"]
    /\ UNCHANGED <<next_pid_, nobj, active_processes_, procs, iot, child,
                   readers, writer, hist>>
    /\ UNCHANGED <<dirVars, streamVars, poolVars, memVars>>

\* if (cleanup_active_.load()) { store(false); notify_all(); join }
shutdown(t) ==
    /\ thr[t].pc = "idle"
    /\ IF cleanup_active_
         THEN /\ cleanup_active_' = FALSE
              /\ thr' = [thr EXCEPT ![t].pc = "sd_joincl"]
         ELSE /\ thr' = [thr EXCEPT ![t].pc = "sd_lock"]
              /\ UNCHANGED cleanup_active_
    /\ UNCHANGED <<next_pid_, nobj, active_processes_, procs, iot, child,
                   readers, writer, hist>>
    /\ UNCHANGED <<dirVars, streamVars, poolVars, memVars>>

\* cleanup_thread_.join()
SdJoinCleanup(t) ==
    /\ thr[t].pc = "sd_joincl"
    /\ thr[CleanupThread].pc = "cl_exited"
    /\ thr' = [thr EXCEPT ![t].pc = "sd_lock", ![CleanupThread].pc = "none"]
    /\ UNCHANGED <<next_pid_, nobj, active_processes_, procs, iot, child,
                   readers, writer, cleanup_active_, hist>>
    /\ UNCHANGED <<dirVars, streamVars, poolVars, memVars>>

\* std::unique_lock lock(processes_mutex_);
SdLock(t) ==
    /\ thr[t].pc = "sd_lock"
    /\ CanLockUnique
    /\ writer' = t
    /\ thr' = [thr EXCEPT ![t].pc = "sd_loop",
                          ![t].todo = Range(active_processes_)]
    /\ UNCHANGED <<next_pid_, nobj, active_processes_, procs, iot, child,
                   readers, cleanup_active_, hist>>
    /\ UNCHANGED <<dirVars, streamVars, poolVars, memVars>>

\* for (auto& [pid, process] : active_processes_)
\*     if (process->isRunning()) process->terminate(true);
SdLoop(t) ==
    /\ thr[t].pc = "sd_loop"
    /\ IF thr[t].todo = {}
         THEN thr' = [thr EXCEPT ![t].pc = "sd_clear",
                                 ![t].todo = Range(active_processes_)]
         ELSE \E o \in thr[t].todo :
                thr' = [thr EXCEPT ![t] =
                          IF isRunning(o)
                            THEN [@ EXCEPT !.pc = "term", !.cur = o,
                                           !.force = TRUE,
                                           !.stack = <<"sd_loop">>,
                                           !.todo = @ \ {o}]
                            ELSE [@ EXCEPT !.todo = @ \ {o}]]
    /\ UNCHANGED <<next_pid_, nobj, active_processes_, procs, iot, child,
                   readers, writer, cleanup_active_, hist>>
    /\ UNCHANGED <<dirVars, streamVars, poolVars, memVars>>

\* active_processes_.clear(): destroy every entry, then unlock and return
SdClear(t) ==
    /\ thr[t].pc = "sd_clear"
    /\ IF thr[t].todo = {}
         THEN /\ writer' = "none"
              /\ thr' = [thr EXCEPT ![t] = IdleThr]
         ELSE /\ \E o \in thr[t].todo :
                    thr' = [thr EXCEPT ![t].cur = o, ![t].pc = "dtor",
                                       ![t].stack = <<"sd_erase">>]
              /\ UNCHANGED writer
    /\ UNCHANGED <<next_pid_, nobj, active_processes_, procs, iot, child,
                   readers, cleanup_active_, hist>>
    /\ UNCHANGED <<dirVars, streamVars, poolVars, memVars>>

SdErase(t) ==
    /\ thr[t].pc = "sd_erase"
    /\ active_processes_' = Erase(active_processes_, thr[t].cur)
    /\ thr' = [thr EXCEPT ![t].pc = "sd_clear",
                          ![t].todo = @ \ {thr[t].cur}]
    /\ UNCHANGED <<next_pid_, nobj, procs, iot, child, readers, writer,
                   cleanup_active_, hist>>
    /\ UNCHANGED <<dirVars, streamVars, poolVars, memVars>>

ShutdownSteps(t) ==
    \/ SdJoinCleanup(t) \/ SdLock(t) \/ SdLoop(t) \/ SdClear(t)
    \/ SdErase(t)

(***************************************************************************)
(* ShellImpl::cleanupThreadFunction / cleanupCompletedProcesses.           *)
(***************************************************************************)
\* while (cleanup_active_.load()) { cleanupCompletedProcesses(): unique_lock
ClTop ==
    /\ thr[CleanupThread].pc = "cl_top"
    /\ IF ~cleanup_active_
         THEN /\ thr' = [thr EXCEPT ![CleanupThread].pc = "cl_exited"]
              /\ UNCHANGED writer
         ELSE /\ CanLockUnique
              /\ writer' = CleanupThread
              /\ thr' = [thr EXCEPT ![CleanupThread].pc = "cl_scan",
                                    ![CleanupThread].todo =
                                        Range(active_processes_)]
    /\ UNCHANGED <<next_pid_, nobj, active_processes_, procs, iot, child,
                   readers, cleanup_active_, hist>>
    /\ UNCHANGED <<dirVars, streamVars, poolVars, memVars>>

\* if (it->second->isComplete()) it = active_processes_.erase(it); else ++it;
ClScan ==
    /\ thr[CleanupThread].pc = "cl_scan"
    /\ IF thr[CleanupThread].todo = {}
         THEN /\ writer' = "none"
              /\ thr' = [thr EXCEPT ![CleanupThread].pc = "cl_wait"]
         ELSE /\ \E o \in thr[CleanupThread].todo :
                    thr' = [thr EXCEPT ![CleanupThread] =
                              IF isComplete(o)
                                THEN [@ EXCEPT !.cur = o, !.pc = "dtor",
                                               !.stack = <<"cl_erase">>]
                                ELSE [@ EXCEPT !.todo = @ \ {o}]]
              /\ UNCHANGED writer
    /\ UNCHANGED <<next_pid_, nobj, active_processes_, procs, iot, child,
                   readers, cleanup_active_, hist>>
    /\ UNCHANGED <<dirVars, streamVars, poolVars, memVars>>

ClErase ==
    /\ thr[CleanupThread].pc = "cl_erase"
    /\ active_processes_' =
           Erase(active_processes_, thr[CleanupThread].cur)
    /\ thr' = [thr EXCEPT ![CleanupThread].pc = "cl_scan",
                          ![CleanupThread].cur = 0,
                          ![CleanupThread].result = FALSE,
                          ![CleanupThread].force = FALSE,
                          ![CleanupThread].todo =
                              @ \ {thr[CleanupThread].cur}]
    /\ UNCHANGED <<next_pid_, nobj, procs, iot, child, readers, writer,
                   cleanup_active_, hist>>
    /\ UNCHANGED <<dirVars, streamVars, poolVars, memVars>>

\* unique_lock lock(processes_mutex_); cleanup_condition_.wait_for(lock, 5s)
ClWait ==
    /\ thr[CleanupThread].pc = "cl_wait"
    /\ CanLockUnique
    /\ thr' = [thr EXCEPT ![CleanupThread].pc = "cl_top"]
    /\ UNCHANGED <<next_pid_, nobj, active_processes_, procs, iot, child,
                   readers, writer, cleanup_active_, hist>>
    /\ UNCHANGED <<dirVars, streamVars, poolVars, memVars>>

cleanupThreadFunction == ClTop \/ ClScan \/ ClErase \/ ClWait

(***************************************************************************)
(* Initial state (a constructed ShellImpl) and next-state relations.       *)
(***************************************************************************)
(***************************************************************************)
(* ManagedProcess used directly: constructor, start(), terminate(force).   *)
(***************************************************************************)
\* ManagedProcess(pid, command, args); a completion callback is registered
Construct(t) ==
    /\ thr[t].pc = "idle"
    /\ nobj < MaxProcs
    /\ nobj' = nobj + 1
    /\ procs' = [procs EXCEPT ![nobj + 1] = NewProc(next_pid_)]
    /\ hist' = [hist EXCEPT !.kind[nobj + 1] = "async"]
    /\ UNCHANGED <<next_pid_, active_processes_, iot, child, readers, writer,
                   cleanup_active_, thr>>
    /\ UNCHANGED <<dirVars, streamVars, poolVars, memVars>>

\* if (running_.load()) return false;
AlreadyRunning(p) == p.running_

\* std::thread objects of o that stand for a thread of execution: io_thread_
\* while joinable, and the temporary whose move-assignment to a joinable
\* io_thread_ ended the program
IoThreadCount(o) ==
    IF procs[o].life = "aborted" THEN 2
    ELSE IF procs[o].joinable THEN 1 ELSE 0

\* ManagedProcess::start(options) called by thread t on object o.  The
\* assignment io_thread_ = std::thread(...) calls std::terminate() when
\* io_thread_ is still joinable: every thread of the program stops.
StartCall(t, o) ==
    /\ thr[t].pc = "idle"
    /\ procs[o].life = "alive"
    /\ hist.starts[o] < MaxStarts
    /\ IF AlreadyRunning(procs[o])
         THEN /\ thr' = [thr EXCEPT ![t] =
                           [IdleThr EXCEPT !.pc = "start_ret", !.cur = o,
                                           !.result = FALSE]]
              /\ UNCHANGED <<procs, iot, child, hist>>
       ELSE IF procs[o].joinable
         THEN /\ procs' = [procs EXCEPT ![o] =
                             [start(procs[o]) EXCEPT !.life = "aborted"]]
              /\ iot' = [x \in Objs |-> [iot[x] EXCEPT !.pc = "aborted"]]
              /\ thr' = [x \in Threads |-> [thr[x] EXCEPT !.pc = "aborted"]]
              /\ hist' = [hist EXCEPT !.starts[o] = @ + 1]
              /\ UNCHANGED child
       ELSE /\ \E populated \in SpawnOutcomes :
                 /\ procs' = [procs EXCEPT ![o] =
                                [start(procs[o]) EXCEPT !.handle_pid =
                                    IF populated THEN o ELSE -1]]
                 /\ child' = [child EXCEPT ![o] =
                                IF populated
                                  THEN [st |-> "alive", status |-> "none"]
                                  ELSE NoChild]
            /\ iot' = [iot EXCEPT ![o].pc = "loop"]
            /\ hist' = [hist EXCEPT !.starts[o] = @ + 1]
            /\ thr' = [thr EXCEPT ![t] =
                         [IdleThr EXCEPT !.pc = "start_ret", !.cur = o,
                                         !.result = TRUE]]
    /\ UNCHANGED <<next_pid_, nobj, active_processes_, readers, writer,
                   cleanup_active_>>
    /\ UNCHANGED <<dirVars, streamVars, poolVars, memVars>>

\* ManagedProcess::terminate(force) called by thread t on object o
TerminateCall(t, o, force) ==
    /\ thr[t].pc = "idle"
    /\ procs[o].life = "alive"
    /\ thr' = [thr EXCEPT ![t] =
                 [IdleThr EXCEPT !.pc = "term", !.stack = <<"terminate_ret">>,
                                 !.cur = o, !.force = force]]
    /\ UNCHANGED <<next_pid_, nobj, active_processes_, procs, iot, child,
                   readers, writer, cleanup_active_, hist>>
    /\ UNCHANGED <<dirVars, streamVars, poolVars, memVars>>

\* ManagedProcess::suspend() called by thread t on object o:
\* if (!running_) return false; if (handle_.pid > 0 && kill(SIGSTOP) == 0)
SuspendCall(t, o) ==
    /\ thr[t].pc = "idle"
    /\ procs[o].life = "alive"
    /\ IF procs[o].running_ /\ KillSucceeds(o)
         THEN /\ \E c \in KillEffect(child[o], "SIGSTOP") :
                    child' = [child EXCEPT ![o] = c]
              /\ thr' = [thr EXCEPT ![t] =
                           [IdleThr EXCEPT !.pc = "susp_state", !.cur = o]]
         ELSE /\ thr' = [thr EXCEPT ![t] =
                           [IdleThr EXCEPT !.pc = "suspend_ret", !.cur = o,
                                           !.result = FALSE]]
              /\ UNCHANGED child
    /\ UNCHANGED <<next_pid_, nobj, active_processes_, procs, iot, readers,
                   writer, cleanup_active_, hist>>
    /\ UNCHANGED <<dirVars, streamVars, poolVars, memVars>>

\* ManagedProcess::resume() called by thread t on object o:
\* if (info_.state != Suspended) return false; kill(SIGCONT) == 0
ResumeCall(t, o) ==
    /\ thr[t].pc = "idle"
    /\ procs[o].life = "alive"
    /\ IF procs[o].info_.state = "Suspended" /\ KillSucceeds(o)
         THEN /\ \E c \in KillEffect(child[o], "SIGCONT") :
                    child' = [child EXCEPT ![o] = c]
              /\ thr' = [thr EXCEPT ![t] =
                           [IdleThr EXCEPT !.pc = "res_state", !.cur = o]]
         ELSE /\ thr' = [thr EXCEPT ![t] =
                           [IdleThr EXCEPT !.pc = "resume_ret", !.cur = o,
                                           !.result = FALSE]]
              /\ UNCHANGED child
    /\ UNCHANGED <<next_pid_, nobj, active_processes_, procs, iot, readers,
                   writer, cleanup_active_, hist>>
    /\ UNCHANGED <<dirVars, streamVars, poolVars, memVars>>

\* if (!running_.load()) return false;  (sendInput)
InputAccepted(p) == p.running_

\* handle_.stdin_fd >= 0: the spawn opens the descriptors with the pid
StdinAvailable(p) == p.handle_pid > 0

\* write(handle_.stdin_fd, ...) >= 0: the pipe takes the bytes while the
\* child holds its read end
WriteSucceeds(c) == c.st \in {"alive", "stopped"}

\* ManagedProcess::sendInput(input) called by thread t on object o
SendInputCall(t, o) ==
    /\ thr[t].pc = "idle"
    /\ procs[o].life = "alive"
    /\ procs[o].stdin_written < MaxInputs
    /\ LET sent == /\ InputAccepted(procs[o])
                   /\ StdinAvailable(procs[o])
                   /\ WriteSucceeds(child[o])
       IN  /\ procs' = [procs EXCEPT ![o].stdin_written =
                                       IF sent THEN @ + 1 ELSE @]
           /\ thr' = [thr EXCEPT ![t] =
                        [IdleThr EXCEPT !.pc = "send_ret", !.cur = o,
                                        !.result = sent]]
    /\ UNCHANGED <<next_pid_, nobj, active_processes_, iot, child, readers,
                   writer, cleanup_active_, hist>>
    /\ UNCHANGED <<dirVars, streamVars, poolVars, memVars>>

\* ProcessIO::getAllOutput(): the stdout bytes followed by the stderr bytes
getAllOutput(p) == p.stdout_buffer_ \o p.stderr_buffer_

\* ProcessIO::hasData(): stdout_size_ > 0 || stderr_size_ > 0
hasData(p) == Len(p.stdout_buffer_) > 0 \/ Len(p.stderr_buffer_) > 0

\* ManagedProcess::readOutput(max_bytes): everything for max_bytes = 0 or a
\* short buffer, otherwise output.substr(0, max_bytes)
readOutput(p, max_bytes) ==
    LET output == getAllOutput(p)
    IN  IF max_bytes = 0 \/ Len(output) <= max_bytes
          THEN output
          ELSE SubSeq(output, 1, max_bytes)

\* the I/O thread's select() reports a readable descriptor: read() takes the
\* child's next byte from stdout or stderr and appendStdout / appendStderr
\* stores it; the bytes are numbered in the order the child wrote them
IoReadOutput(o) ==
    /\ iot[o].pc = "select"
    /\ procs[o].handle_pid > 0
    /\ child[o].st # "none"
    /\ LET n == Len(getAllOutput(procs[o])) + 1
       IN  /\ n <= MaxOutput
           /\ \/ procs' = [procs EXCEPT ![o].stdout_buffer_ = Append(@, n)]
              \/ procs' = [procs EXCEPT ![o].stderr_buffer_ = Append(@, n)]
    /\ hist' = [hist EXCEPT !.drained[o] = FALSE]
    /\ UNCHANGED <<next_pid_, nobj, active_processes_, iot, child, readers,
                   writer, cleanup_active_, thr>>
    /\ UNCHANGED <<dirVars, streamVars, poolVars, memVars>>

\* ManagedProcess::readOutput(max_bytes) called by thread t on object o;
\* hist.delivered collects the bytes handed to callers, hist.drained tells
\* that the last call returned all there was
ReadOutputCall(t, o, max_bytes) ==
    /\ thr[t].pc = "idle"
    /\ procs[o].life = "alive"
    /\ LET output == readOutput(procs[o], max_bytes)
       IN  /\ thr' = [thr EXCEPT ![t] =
                        [IdleThr EXCEPT !.pc = "read_ret", !.cur = o,
                                        !.max_bytes = max_bytes,
                                        !.out = output]]
           /\ hist' = [hist EXCEPT
                         !.delivered[o] = @ \cup Range(output),
                         !.drained[o] = (output = getAllOutput(procs[o]))]
    /\ UNCHANGED <<next_pid_, nobj, active_processes_, procs, iot, child,
                   readers, writer, cleanup_active_>>
    /\ UNCHANGED <<dirVars, streamVars, poolVars, memVars>>

\* ManagedProcess::hasOutput() called by thread t on object o
HasOutputCall(t, o) ==
    /\ thr[t].pc = "idle"
    /\ procs[o].life = "alive"
    /\ thr' = [thr EXCEPT ![t] =
                 [IdleThr EXCEPT !.pc = "has_ret", !.cur = o,
                                 !.result = hasData(procs[o])]]
    /\ UNCHANGED <<next_pid_, nobj, active_processes_, procs, iot, child,
                   readers, writer, cleanup_active_, hist>>
    /\ UNCHANGED <<dirVars, streamVars, poolVars, memVars>>

\* positions of a thread that is about to return from a direct call
DirectReturns ==
    {"start_ret", "terminate_ret", "suspend_ret", "resume_ret", "send_ret",
     "read_ret", "has_ret"}

\* the direct call returns thr[t].result to its caller
DirectRet(t) ==
    /\ thr[t].pc \in DirectReturns
    /\ thr' = [thr EXCEPT ![t] = IdleThr]
    /\ UNCHANGED <<next_pid_, nobj, active_processes_, procs, iot, child,
                   readers, writer, cleanup_active_, hist>>
    /\ UNCHANGED <<dirVars, streamVars, poolVars, memVars>>

ShellInit ==
    /\ next_pid_ = FirstPid
    /\ nobj = 0
    /\ active_processes_ = EmptyTable
    /\ procs = [o \in Objs |-> NoProc]
    /\ iot = [o \in Objs |-> [pc |-> "none", status |-> "none"]]
    /\ child = [o \in Objs |-> NoChild]
    /\ readers = {}
    /\ writer = "none"
    /\ cleanup_active_ = FALSE
    /\ thr = [t \in Threads |->
                IF t = CleanupThread THEN [IdleThr EXCEPT !.pc = "none"]
                ELSE IdleThr]
    /\ cwd = RootDir
    /\ current_directory_ = cwd
    /\ pipes = [o \in Objs |-> [out |-> <<>>, err |-> <<>>, n |-> 0]]
    /\ buffer = [o \in Objs |-> <<>>]
    /\ bytes_read = [o \in Objs |-> 0]
    /\ events = [o \in Objs |-> <<>>]
    /\ reads = [o \in Objs |-> <<>>]
    /\ hist = [term_true |-> {}, seen_terminal |-> {}, returned |-> {},
               key_of |-> [o \in Objs |-> 0],
               kind |-> [o \in Objs |-> "none"],
               completions |-> [o \in Objs |-> 0],
               starts |-> [o \in Objs |-> 0],
               delivered |-> [o \in Objs |-> {}],
               drained |-> [o \in Objs |-> FALSE]]

\* a caller thread starts an execution call
ExecuteCall(t) ==
    executeSync(t) \/ executeAsync(t) \/ executeInteractive(t)

\* a caller thread starts a process-control call on a pid
ControlCall(t) ==
    \E pid \in PidArgs :
        \/ \E force \in BOOLEAN : terminateProcess(t, pid, force)
        \/ suspendProcess(t, pid)
        \/ resumeProcess(t, pid)

\* a caller thread takes the next step of the call it is in
CallStep(t) ==
    \/ ExecuteSteps(t)
    \/ TpRet(t) \/ SuspState(t) \/ ResState(t)
    \/ ShutdownSteps(t)

\* a thread inside ManagedProcess::terminate or ~ManagedProcess takes a step
ObjectStep == \E t \in Threads : terminate(t) \/ Destructor(t)

\* the I/O threads and the child processes
Processes == \E o \in Objs : ioThreadFunction(o) \/ ChildExits(o)

\* Every API call from every caller thread, racing on the processes the
\* shell has created (at most RacedProcs of them).
ShellNext ==
    \/ \E t \in Callers :
          \/ nobj < RacedProcs /\ ExecuteCall(t)
          \/ ControlCall(t)
          \/ initialize(t) \/ shutdown(t)
          \/ CallStep(t)
    \/ ObjectStep
    \/ cleanupThreadFunction
    \/ Processes

\* executeAsync, then forced terminateProcess racing with suspendProcess,
\* resumeProcess and the I/O thread.
ForcedNext ==
    \/ \E t \in Callers :
          \/ nobj < RacedProcs /\ executeAsync(t)
          \/ ExecStart(t) \/ ExecInsert(t) \/ ExecRet(t)
          \/ \E pid \in PidArgs :
                \/ terminateProcess(t, pid, TRUE)
                \/ suspendProcess(t, pid)
                \/ resumeProcess(t, pid)
          \/ TpRet(t) \/ SuspState(t) \/ ResState(t) \/ terminate(t)
    \/ Processes

\* One thread initializes the shell and spawns processes with executeAsync,
\* another polls getProcessInfo, while the cleanup thread runs its passes.
PollNext ==
    \/ initialize("c1")
    \/ executeAsync("c1") \/ ExecStart("c1") \/ ExecInsert("c1")
    \/ ExecRet("c1")
    \/ \E pid \in PidArgs : PollProcessInfo("c2", pid)
    \/ cleanupThreadFunction \/ Destructor(CleanupThread)
    \/ Processes

\* every thread that can run does run; the poller gets the shared lock
\* again and again even though the cleanup pass keeps taking the lock
PollFairness ==
    /\ WF_vars(ExecStart("c1") \/ ExecInsert("c1") \/ ExecRet("c1"))
    /\ \A o \in Objs : WF_vars(ioThreadFunction(o))
    /\ \A pid \in PidArgs : SF_vars(PollProcessInfo("c2", pid))
    /\ WF_vars(cleanupThreadFunction \/ Destructor(CleanupThread))

\* One thread initializes the shell and spawns processes with executeAsync,
\* another may call suspendProcess and shutdown(), while the cleanup thread
\* runs its passes.
CleanupNext ==
    \/ initialize("c1")
    \/ nobj < RacedProcs /\ executeAsync("c1")
    \/ ExecStart("c1") \/ ExecInsert("c1")
    \/ ExecRet("c1")
    \/ shutdown("c2") \/ ShutdownSteps("c2")
    \/ terminate("c2") \/ Destructor("c2")
    \/ \E pid \in PidArgs : suspendProcess("c2", pid)
    \/ SuspState("c2")
    \/ cleanupThreadFunction \/ Destructor(CleanupThread)
    \/ Processes

\* every thread that can run does run, and a call that was made runs to its
\* end
CleanupFairness ==
    /\ WF_vars(ExecStart("c1") \/ ExecInsert("c1") \/ ExecRet("c1"))
    /\ WF_vars(\/ ShutdownSteps("c2") \/ terminate("c2") \/ Destructor("c2")
               \/ SuspState("c2"))
    /\ \A o \in Objs : WF_vars(ioThreadFunction(o))
    /\ WF_vars(cleanupThreadFunction \/ Destructor(CleanupThread))

\* One thread initializes the shell and runs executeAsync with a completion
\* callback that calls back into the shell; another calls terminateProcess
\* and shutdown(), while the cleanup thread runs its passes.
ReenterNext ==
    \/ initialize("c1")
    \/ nobj < RacedProcs /\ executeAsync("c1")
    \/ ExecStart("c1") \/ ExecInsert("c1")
    \/ ExecRet("c1")
    \/ \E pid \in PidArgs : terminateProcess("c2", pid, TRUE)
    \/ TpRet("c2")
    \/ shutdown("c2") \/ ShutdownSteps("c2")
    \/ terminate("c2") \/ Destructor("c2")
    \/ cleanupThreadFunction \/ Destructor(CleanupThread)
    \/ \E o \in Objs : ioThreadWithCallback(o) \/ ChildExits(o)

\* every thread that can run does run, a call that was made runs to its end,
\* and a thread that waits for processes_mutex_ gets it when it is released
\* again and again
ReenterFairness ==
    /\ WF_vars(ExecStart("c1") \/ ExecInsert("c1") \/ ExecRet("c1"))
    /\ SF_vars(\/ ShutdownSteps("c2") \/ terminate("c2") \/ Destructor("c2")
               \/ TpRet("c2"))
    /\ \A o \in Objs : SF_vars(ioThreadWithCallback(o))
    /\ SF_vars(cleanupThreadFunction \/ Destructor(CleanupThread))

\* executeSync calls from every caller thread, each waiting for its process.
SyncNext ==
    \/ \E t \in Callers :
          \/ executeSync(t)
          \/ ExecStart(t) \/ SyncPoll(t) \/ SyncInfo(t) \/ SyncRet(t)
          \/ ExecRet(t) \/ Destructor(t)
    \/ Processes

\* the I/O threads and the threads inside executeSync keep running; nothing
\* forces a child to exit
SyncFairness ==
    /\ \A o \in Objs : WF_vars(ioThreadFunction(o))
    /\ \A t \in Callers :
          WF_vars(ExecStart(t) \/ SyncPoll(t) \/ SyncInfo(t) \/ SyncRet(t)
                  \/ ExecRet(t) \/ Destructor(t))

\* Concurrent executeAsync / executeInteractive calls from every caller
\* thread.
SpawnNext ==
    \/ \E t \in Callers :
          \/ executeAsync(t) \/ executeInteractive(t)
          \/ ExecStart(t) \/ ExecInsert(t) \/ ExecRet(t)
    \/ Processes

\* A client that owns ManagedProcess objects and calls start() and
\* terminate() on them in any order, while the I/O threads and the children
\* run.
DirectNext ==
    \/ \E t \in Callers :
          \/ nobj < RacedProcs /\ Construct(t)
          \/ \E o \in Objs :
                \/ StartCall(t, o)
                \/ \E force \in BOOLEAN : TerminateCall(t, o, force)
                \/ SuspendCall(t, o) \/ ResumeCall(t, o)
          \/ DirectRet(t) \/ terminate(t) \/ SuspState(t) \/ ResState(t)
    \/ Processes

\* A client that drives one interactive ManagedProcess: start, suspend,
\* resume and terminate it, send it input and read its output, while the
\* I/O thread and the child run.
IoNext ==
    \/ \E t \in Callers :
          \/ nobj < RacedProcs /\ Construct(t)
          \/ \E o \in Objs :
                \/ StartCall(t, o)
                \/ TerminateCall(t, o, TRUE)
                \/ SuspendCall(t, o) \/ ResumeCall(t, o)
                \/ SendInputCall(t, o)
          \/ DirectRet(t) \/ terminate(t) \/ SuspState(t) \/ ResState(t)
    \/ Processes

(***************************************************************************)
(* The built-in cd: executeSync -> executeBuiltin -> executeBuiltinCd ->   *)
(* setCurrentDirectory.                                                    *)
(***************************************************************************)
\* the arguments a caller passes to cd
CdArgs == {<<>>} \cup {<<d>> : d \in Dirs \cup {"/missing"}}
\* environment_.get("HOME"): unset, or a directory
HomeValues == {"", "/home"}

\* a setCurrentDirectory that stores the path before it knows the outcome
SetDirectoryUnchecked(dir, os, path, getcwd_ok) ==
    [ok |-> path \in Dirs /\ getcwd_ok, current_directory_ |-> path,
     cwd |-> IF path \in Dirs THEN path ELSE os]

\* setCurrentDirectory(path): chdir(path) succeeds for an existing directory
\* and moves the OS working directory; current_directory_ is assigned only
\* when getcwd() succeeds too
setCurrentDirectory(dir, os, path, getcwd_ok) ==
    IF path \in Dirs
      THEN IF getcwd_ok
             THEN [ok |-> TRUE, current_directory_ |-> path, cwd |-> path]
             ELSE [ok |-> FALSE, current_directory_ |-> dir, cwd |-> path]
      ELSE [ok |-> FALSE, current_directory_ |-> dir, cwd |-> os]

\* executeBuiltinCd(args): the target is args[0], or HOME, or "/" when HOME
\* is empty; Completed / 0 when the directory was set, Failed / 1 otherwise
executeBuiltinCd(t, args, home, getcwd_ok) ==
    /\ thr[t].pc = "idle"
    /\ LET target_dir == IF args = <<>>
                           THEN IF home = "" THEN RootDir ELSE home
                           ELSE args[1]
           r == setCurrentDirectory(current_directory_, cwd, target_dir,
                                    getcwd_ok)
       IN  /\ current_directory_' = r.current_directory_
           /\ cwd' = r.cwd
           /\ thr' = [thr EXCEPT ![t] =
                        [IdleThr EXCEPT
                           !.pc = "builtin_ret", !.op = "cd",
                           !.args = args, !.result = r.ok,
                           !.info = [DefaultInfo EXCEPT
                                       !.state = IF r.ok THEN "Completed"
                                                 ELSE "Failed",
                                       !.exit_code = IF r.ok THEN 0 ELSE 1,
                                       !.end_time = 1]]]
    /\ UNCHANGED <<next_pid_, nobj, active_processes_, procs, iot, child,
                   readers, writer, cleanup_active_, hist>>
    /\ UNCHANGED <<streamVars, poolVars, memVars>>

\* executeSync returns the ProcessInfo of the built-in
BuiltinRet(t) ==
    /\ thr[t].pc = "builtin_ret"
    /\ thr' = [thr EXCEPT ![t] = IdleThr]
    /\ UNCHANGED <<next_pid_, nobj, active_processes_, procs, iot, child,
                   readers, writer, cleanup_active_, hist>>
    /\ UNCHANGED <<dirVars, streamVars, poolVars, memVars>>

(***************************************************************************)
(* The other built-ins.  Argument words are sequences of characters.       *)
(***************************************************************************)
DigitChars == <<"0", "1", "2", "3", "4", "5", "6", "7", "8", "9">>
IsDigit(c) == \E i \in 1 .. 10 : DigitChars[i] = c
DigitOf(c) == (CHOOSE i \in 1 .. 10 : DigitChars[i] = c) - 1
IntMax == 2147483647

\* the decimal representation of n >= 0
RECURSIVE Decimal(_)
Decimal(n) ==
    IF n < 10 THEN <<DigitChars[n + 1]>>
    ELSE Decimal(n \div 10) \o <<DigitChars[(n % 10) + 1]>>

\* the value of the longest prefix of digits of s, starting from acc
RECURSIVE StoiDigits(_, _)
StoiDigits(s, acc) ==
    IF s = <<>> \/ ~IsDigit(Head(s)) THEN acc
    ELSE StoiDigits(Tail(s), acc * 10 + DigitOf(Head(s)))

RECURSIVE SkipSpace(_)
SkipSpace(s) ==
    IF s # <<>> /\ Head(s) = " " THEN SkipSpace(Tail(s)) ELSE s

\* std::stoi(word): leading white space, an optional sign, then digits up to
\* the first other character; throws when there is no digit or the value
\* does not fit an int
stoi(word) ==
    LET s == SkipSpace(word)
        neg == s # <<>> /\ Head(s) = "-"
        body == IF s # <<>> /\ Head(s) \in {"-", "+"} THEN Tail(s) ELSE s
        v == StoiDigits(body, 0)
    IN  IF body = <<>> \/ ~IsDigit(Head(body)) \/ v > IntMax
          THEN [ok |-> FALSE, value |-> 0]
          ELSE [ok |-> TRUE, value |-> IF neg THEN 0 - v ELSE v]

\* first arguments tried with kill: every pid, a pid followed by a
\* letter, a pid after a blank, a negative number, a letter, an empty word
ArgWords ==
    {Decimal(pid) : pid \in PidArgs}
      \cup {Decimal(FirstPid) \o <<"x">>, <<" ">> \o Decimal(FirstPid),
             <<"-", "1">>, <<"x">>, <<>>}
BuiltinArgs == {<<>>} \cup {<<w>> : w \in ArgWords}
\* arguments tried with exit: none, a code, a word that is not a number
ExitArgs == {<<>>, <<(<<"2">>)>>, <<(<<"x">>)>>}

SimpleBuiltins == {"pwd", "echo", "exit", "export", "jobs", "help"}

\* a dispatch that reports failure for every built-in
BuiltinAlwaysFails(command, args) ==
    [DefaultInfo EXCEPT !.state = "Failed", !.exit_code = 1, !.end_time = 1]

\* executeBuiltin(command, args) for the built-ins that act on nothing:
\* pwd, echo, jobs and export return Completed / 0, exit returns Completed
\* with the code it was given (1 when the code does not parse), and help,
\* which has no handler, falls through to Failed / 1
BuiltinInfo(command, args) ==
    CASE command \in {"pwd", "echo", "jobs", "export"} ->
           [DefaultInfo EXCEPT !.state = "Completed", !.exit_code = 0,
                               !.end_time = 1]
      [] command = "exit" ->
           [DefaultInfo EXCEPT
              !.state = "Completed",
              !.exit_code = IF args = <<>> THEN 0
                            ELSE IF stoi(args[1]).ok
                                   THEN stoi(args[1]).value ELSE 1,
              !.end_time = 1]
      [] OTHER ->
           [DefaultInfo EXCEPT !.state = "Failed", !.exit_code = 1]

\* executeSync(command) for a simple built-in: executeBuiltin returns the
\* synthetic ProcessInfo
executeBuiltin(t, command, args) ==
    /\ thr[t].pc = "idle"
    /\ thr' = [thr EXCEPT ![t] =
                 [IdleThr EXCEPT !.pc = "builtin_ret", !.op = command,
                                 !.args = args,
                                 !.info = BuiltinInfo(command, args)]]
    /\ UNCHANGED <<next_pid_, nobj, active_processes_, procs, iot, child,
                   readers, writer, cleanup_active_, hist>>
    /\ UNCHANGED <<dirVars, streamVars, poolVars, memVars>>

\* the ProcessInfo of kill: Completed / 0 when terminateProcess returned
\* true, Failed / 1 otherwise
KillInfo(success) ==
    [DefaultInfo EXCEPT !.state = IF success THEN "Completed" ELSE "Failed",
                        !.exit_code = IF success THEN 0 ELSE 1,
                        !.end_time = 1]

\* executeBuiltinKill(args): without an argument or when stoi throws,
\* exit_code 1; otherwise terminateProcess(pid, false), which takes the
\* shared lock and, for a pid in the table, runs terminate(false)
executeBuiltinKill(t, args) ==
    /\ thr[t].pc = "idle"
    /\ IF args = <<>> \/ ~stoi(args[1]).ok
         THEN /\ thr' = [thr EXCEPT ![t] =
                           [IdleThr EXCEPT !.pc = "builtin_ret",
                                           !.op = "kill", !.args = args,
                                           !.info = KillInfo(FALSE)]]
              /\ UNCHANGED readers
         ELSE LET pid == stoi(args[1]).value
              IN  /\ CanLockShared
                  /\ IF pid \in DOMAIN active_processes_
                       THEN /\ readers' = readers \cup {t}
                            /\ thr' = [thr EXCEPT ![t] =
                                         [IdleThr EXCEPT
                                            !.pc = "term",
                                            !.stack = <<"kill_ret">>,
                                            !.cur = active_processes_[pid],
                                            !.pid = pid, !.force = FALSE,
                                            !.op = "kill", !.args = args]]
                       ELSE /\ thr' = [thr EXCEPT ![t] =
                                         [IdleThr EXCEPT
                                            !.pc = "builtin_ret",
                                            !.op = "kill", !.args = args,
                                            !.pid = pid,
                                            !.info = KillInfo(FALSE)]]
                            /\ UNCHANGED readers
    /\ UNCHANGED <<next_pid_, nobj, active_processes_, procs, iot, child,
                   writer, cleanup_active_, hist>>
    /\ UNCHANGED <<dirVars, streamVars, poolVars, memVars>>

\* terminateProcess returned thr[t].result: release the shared lock and
\* build the ProcessInfo
KillRet(t) ==
    /\ thr[t].pc = "kill_ret"
    /\ readers' = readers \ {t}
    /\ thr' = [thr EXCEPT ![t].pc = "builtin_ret",
                          ![t].info = KillInfo(thr[t].result)]
    /\ UNCHANGED <<next_pid_, nobj, active_processes_, procs, iot, child,
                   writer, cleanup_active_, hist>>
    /\ UNCHANGED <<dirVars, streamVars, poolVars, memVars>>

\* Callers run every built-in while processes are spawned into the table,
\* run, and exit.
BuiltinNext ==
    \/ \E t \in Callers :
          \/ nobj < RacedProcs /\ executeAsync(t)
          \/ ExecStart(t) \/ ExecInsert(t) \/ ExecRet(t)
          \/ \E command \in SimpleBuiltins : executeBuiltin(t, command, <<>>)
          \/ \E args \in ExitArgs : executeBuiltin(t, "exit", args)
          \/ \E args \in BuiltinArgs : executeBuiltinKill(t, args)
          \/ \E home \in HomeValues, ok \in BOOLEAN :
                executeBuiltinCd(t, <<>>, home, ok)
          \/ KillRet(t) \/ terminate(t) \/ BuiltinRet(t)
    \/ Processes

\* Callers run cd with every argument while others spawn processes into the
\* table.
CdNext ==
    \/ \E t \in Callers :
          \/ nobj < RacedProcs /\ executeAsync(t)
          \/ ExecStart(t) \/ ExecInsert(t) \/ ExecRet(t)
          \/ \E args \in CdArgs, home \in HomeValues, ok \in BOOLEAN :
                executeBuiltinCd(t, args, home, ok)
          \/ BuiltinRet(t)
    \/ Processes

(***************************************************************************)
(* ShellImpl's per-pid calls: active_processes_.find(pid) under a shared   *)
(* lock, then the ManagedProcess call or the not-found return.             *)
(***************************************************************************)
LookupOps == {"terminateProcess", "suspendProcess", "resumeProcess",
              "sendInput", "hasOutput", "readOutput", "getProcessInfo"}

\* a not-found branch that reports success and a running process
FoundValue(pid) ==
    [result |-> TRUE, out |-> <<>>,
     info |-> [DefaultInfo EXCEPT !.pid = pid, !.state = "Running"]]

\* the returns after `it == active_processes_.end()`: false, "" and a
\* ProcessInfo with the pid asked for and state NotStarted
NotFoundValue(pid) ==
    [result |-> FALSE, out |-> <<>>,
     info |-> [DefaultInfo EXCEPT !.pid = pid, !.state = "NotStarted"]]

\* op(pid, ...) for a pid that find() does not locate
NotFound(t, op, pid) ==
    /\ thr[t].pc = "idle"
    /\ CanLockShared
    /\ pid \notin DOMAIN active_processes_
    /\ LET v == NotFoundValue(pid)
       IN  thr' = [thr EXCEPT ![t] =
                     [IdleThr EXCEPT !.pc = "api_ret", !.op = op,
                                     !.pid = pid, !.result = v.result,
                                     !.out = v.out, !.info = v.info]]
    /\ UNCHANGED <<next_pid_, nobj, active_processes_, procs, iot, child,
                   readers, writer, cleanup_active_, hist>>
    /\ UNCHANGED <<dirVars, streamVars, poolVars, memVars>>

\* the call returns to its caller
ApiRet(t) ==
    /\ thr[t].pc = "api_ret"
    /\ thr' = [thr EXCEPT ![t] = IdleThr]
    /\ UNCHANGED <<next_pid_, nobj, active_processes_, procs, iot, child,
                   readers, writer, cleanup_active_, hist>>
    /\ UNCHANGED <<dirVars, streamVars, poolVars, memVars>>

\* ShellImpl::sendInput(pid, input) for a pid in the table
ShellSendInput(t, pid) ==
    /\ CanLockShared
    /\ pid \in DOMAIN active_processes_
    /\ SendInputCall(t, active_processes_[pid])

\* ShellImpl::hasOutput(pid) for a pid in the table
ShellHasOutput(t, pid) ==
    /\ CanLockShared
    /\ pid \in DOMAIN active_processes_
    /\ HasOutputCall(t, active_processes_[pid])

\* Every per-pid call of the shell, on pids that are and pids that are not
\* in the table, while executeAsync fills the table.
LookupNext ==
    \/ \E t \in Callers :
          \/ nobj < RacedProcs /\ executeAsync(t)
          \/ ExecStart(t) \/ ExecInsert(t) \/ ExecRet(t)
          \/ \E pid \in PidArgs :
                \/ \E op \in LookupOps : NotFound(t, op, pid)
                \/ terminateProcess(t, pid, TRUE)
                \/ suspendProcess(t, pid) \/ resumeProcess(t, pid)
                \/ ShellSendInput(t, pid) \/ ShellHasOutput(t, pid)
          \/ ApiRet(t) \/ DirectRet(t)
          \/ TpRet(t) \/ SuspState(t) \/ ResState(t) \/ terminate(t)
    \/ Processes

\* A client that starts a ManagedProcess and polls its output with
\* readOutput() and hasOutput() while the I/O thread fills the buffers.
OutputNext ==
    \/ \E t \in Callers :
          \/ nobj < RacedProcs /\ Construct(t)
          \/ \E o \in Objs :
                \/ StartCall(t, o)
                \/ \E max_bytes \in 0 .. MaxOutput :
                      ReadOutputCall(t, o, max_bytes)
                \/ HasOutputCall(t, o)
          \/ DirectRet(t)
    \/ \E o \in Objs : IoReadOutput(o)
    \/ Processes

\* Every execute call from every caller thread, with commands that parse
\* and commands that do not.
ExecNext ==
    \/ \E t \in Callers :
          \/ ExecuteCall(t) \/ ExecuteSteps(t) \/ Destructor(t)
    \/ Processes

(***************************************************************************)
(* Output streams.  Each child writes to its own stdout and stderr pipe;   *)
(* the I/O thread of a process reads a chunk into its buffer, appends it   *)
(* to ProcessIO and hands it to the output callback of that process.  A    *)
(* byte carries the process whose child wrote it and its number in write   *)
(* order, so that a byte that strays to another process can be told.       *)
(***************************************************************************)
Byte(o, k) == <<o, k>>
WrittenBy(b) == b[1]

\* every I/O thread working in the buffer of the first one
BufferOfFirst(o) == 1

\* char buffer[4096] is a local of ioThreadFunction: one per I/O thread
StackBuffer(o) == o

\* std::string(buffer, bytes_read)
Chunk(o) == SubSeq(buffer[StackBuffer(o)], 1, bytes_read[o])

\* an append that drops what the buffer held
OverwriteStdout(p, data) == [p EXCEPT !.stdout_buffer_ = data]

\* ProcessIO::appendStdout / appendStderr: memcpy behind the bytes held
appendStdout(p, data) == [p EXCEPT !.stdout_buffer_ = @ \o data]
appendStderr(p, data) == [p EXCEPT !.stderr_buffer_ = @ \o data]

\* ProcessIO::getStdout() / getStderr()
getStdout(p) == p.stdout_buffer_
getStderr(p) == p.stderr_buffer_

\* the child of process o writes one byte to its stdout or stderr
ChildWrites(o, is_error) ==
    /\ child[o].st = "alive"
    /\ pipes[o].n < MaxOutput
    /\ LET b == Byte(o, pipes[o].n + 1)
       IN  pipes' = [pipes EXCEPT
                       ![o].n = @ + 1,
                       ![o].out = IF is_error THEN @ ELSE Append(@, b),
                       ![o].err = IF is_error THEN Append(@, b) ELSE @]
    /\ UNCHANGED <<next_pid_, nobj, active_processes_, procs, iot, child,
                   readers, writer, cleanup_active_, thr, hist>>
    /\ UNCHANGED <<buffer, bytes_read, events, reads>>
    /\ UNCHANGED <<dirVars, poolVars, memVars>>

\* select() reports the descriptor readable; read(fd, buffer, sizeof(buffer))
\* stores the first k unread bytes at the front of buffer and returns k
IoRead(o, is_error, k) ==
    /\ iot[o].pc = "select"
    /\ procs[o].handle_pid > 0
    /\ LET unread == IF is_error THEN pipes[o].err ELSE pipes[o].out
           data == SubSeq(unread, 1, k)
           rest == SubSeq(unread, k + 1, Len(unread))
       IN  /\ k \in 1 .. Len(unread)
           /\ buffer' = [buffer EXCEPT ![StackBuffer(o)] =
                           data \o SubSeq(@, k + 1, Len(@))]
           /\ bytes_read' = [bytes_read EXCEPT ![o] = k]
           /\ pipes' = [pipes EXCEPT
                          ![o].out = IF is_error THEN @ ELSE rest,
                          ![o].err = IF is_error THEN rest ELSE @]
           /\ reads' = [reads EXCEPT ![o] =
                          Append(@, [output |-> data, is_error |-> is_error])]
    /\ iot' = [iot EXCEPT ![o].pc = IF is_error THEN "err_append"
                                                ELSE "out_append"]
    /\ UNCHANGED <<next_pid_, nobj, active_processes_, procs, child,
                   readers, writer, cleanup_active_, thr, hist, events>>
    /\ UNCHANGED <<dirVars, poolVars, memVars>>

\* io_.appendStdout(buffer, bytes_read) / io_.appendStderr(buffer, bytes_read)
IoAppend(o) ==
    /\ iot[o].pc \in {"out_append", "err_append"}
    /\ procs' = [procs EXCEPT ![o] =
                   IF iot[o].pc = "err_append"
                     THEN appendStderr(@, Chunk(o))
                     ELSE appendStdout(@, Chunk(o))]
    /\ iot' = [iot EXCEPT ![o].pc = IF iot[o].pc = "err_append"
                                      THEN "err_notify" ELSE "out_notify"]
    /\ hist' = [hist EXCEPT !.drained[o] = FALSE]
    /\ UNCHANGED <<next_pid_, nobj, active_processes_, child, readers,
                   writer, cleanup_active_, thr>>
    /\ UNCHANGED <<dirVars, streamVars, poolVars, memVars>>

\* notifyOutput(std::string(buffer, bytes_read), is_error): the callback
\* given to executeAsync for this process is called
notifyOutput(o) ==
    /\ iot[o].pc \in {"out_notify", "err_notify"}
    /\ events' = [events EXCEPT ![o] =
                    Append(@, [output |-> Chunk(o),
                               is_error |-> iot[o].pc = "err_notify"])]
    /\ iot' = [iot EXCEPT ![o].pc = "select"]
    /\ UNCHANGED <<next_pid_, nobj, active_processes_, procs, child,
                   readers, writer, cleanup_active_, thr, hist>>
    /\ UNCHANGED <<pipes, buffer, bytes_read, reads>>
    /\ UNCHANGED <<dirVars, poolVars, memVars>>

\* ShellImpl::readOutput(pid, 0) of a pid the table holds
ShellReadOutput(t, pid) ==
    /\ thr[t].pc = "idle"
    /\ CanLockShared
    /\ pid \in DOMAIN active_processes_
    /\ LET o == active_processes_[pid]
           output == readOutput(procs[o], 0)
       IN  /\ procs[o].life = "alive"
           /\ thr' = [thr EXCEPT ![t] =
                        [IdleThr EXCEPT !.pc = "read_ret", !.cur = o,
                                        !.pid = pid, !.out = output]]
           /\ hist' = [hist EXCEPT
                         !.delivered[o] = @ \cup Range(output),
                         !.drained[o] = (output = getAllOutput(procs[o]))]
    /\ UNCHANGED <<next_pid_, nobj, active_processes_, procs, iot, child,
                   readers, writer, cleanup_active_>>
    /\ UNCHANGED <<dirVars, streamVars, poolVars, memVars>>

\* the caller that starts the processes and the caller that reads their output
Spawner == "c1"
Reader == "c2"

\* Two processes are started; their children write and their I/O threads
\* read, append and notify in every interleaving while a caller reads the
\* output of either pid.
StreamNext ==
    \/ nobj < MaxProcs /\ executeAsync(Spawner)
    \/ ExecStart(Spawner) \/ ExecInsert(Spawner) \/ ExecRet(Spawner)
    \/ \E pid \in PidArgs : ShellReadOutput(Reader, pid)
    \/ DirectRet(Reader)
    \/ \E o \in Objs :
          \/ IoLoop(o) \/ IoSelect(o)
          \/ \E is_error \in BOOLEAN :
                \/ ChildWrites(o, is_error)
                \/ \E k \in 1 .. MaxOutput : IoRead(o, is_error, k)
          \/ IoAppend(o) \/ notifyOutput(o)

(***************************************************************************)
(* StackAllocator<StackSize>: a bump pointer top_ into stack_, advanced   *)
(* by compare-and-swap, rewound by deallocate_to and reset.  size_t       *)
(* arithmetic wraps at 2^SizeBits.                                         *)
(***************************************************************************)
StackThreads == {"s1", "s2"}
SizeRange == 2 ^ SizeBits

\* align_up<alignof(std::max_align_t)>(size):
\* (size + Alignment - 1) & ~(Alignment - 1) in size_t
align_up(size) ==
    LET sum == (size + MaxAlign - 1) % SizeRange
    IN  sum - (sum % MaxAlign)

\* &stack_[offset]
StackAddr(offset) == StackBase + offset
stack_begin == StackBase

\* size_t used(): top_.load()
used == top_

\* sizes asked of allocate: nothing, a byte, one aligned unit, the whole
\* buffer, and the two largest values whose alignment wraps
StackSizes ==
    {0, 1, MaxAlign, StackSize, SizeRange - MaxAlign, SizeRange - 1}

\* pointers given to deallocate_to: null, pointers allocate can return, and
\* the address past the buffer
StackPointers ==
    {NullPtr, StackAddr(StackSize)}
      \cup {StackAddr(k * MaxAlign) : k \in 0 .. (StackSize \div MaxAlign)}

StackIdle == [pc |-> "idle", op |-> "none", req |-> 0, size |-> 0,
              current_top |-> 0, aligned_top |-> 0, new_top |-> 0,
              ret |-> NullPtr]

StackInit ==
    /\ top_ = 0
    /\ sthr = [t \in StackThreads |-> StackIdle]
    /\ regions = <<>>

\* the locals of allocate after top_ was read as current_top: aligned_top,
\* new_top, and whether the overflow test sends the call to `return nullptr`
Bumped(t, req, size, current_top) ==
    LET aligned_top == align_up(current_top)
        new_top == (aligned_top + size) % SizeRange
    IN  [pc |-> IF new_top > StackSize THEN "ret" ELSE "cas",
         op |-> "allocate", req |-> req, size |-> size,
         current_top |-> current_top, aligned_top |-> aligned_top,
         new_top |-> new_top, ret |-> NullPtr]

\* allocate(size, alignment): align the size, load top_, compute new_top,
\* return nullptr when new_top > StackSize
StackAllocate(t, size) ==
    /\ sthr[t].pc = "idle"
    /\ Len(regions) < MaxRegions
    /\ sthr' = [sthr EXCEPT ![t] = Bumped(t, size, align_up(size), top_)]
    /\ UNCHANGED <<top_, regions>>
    /\ UNCHANGED <<poolVars, shellVars, managerVars, terminalVars,
                   ioVars>>

\* top_.compare_exchange_weak(current_top, new_top): on success return
\* &stack_[aligned_top]; on failure current_top holds the value found and
\* the loop body computes aligned_top and new_top again
StackCas(t) ==
    /\ sthr[t].pc = "cas"
    /\ IF top_ = sthr[t].current_top
         THEN /\ top_' = sthr[t].new_top
              /\ sthr' = [sthr EXCEPT
                            ![t].pc = "ret",
                            ![t].ret = StackAddr(sthr[t].aligned_top)]
              /\ regions' = Append(regions,
                                   [base |-> sthr[t].aligned_top,
                                    size |-> sthr[t].req])
         ELSE /\ sthr' = [sthr EXCEPT ![t] =
                            Bumped(t, sthr[t].req, sthr[t].size, top_)]
              /\ UNCHANGED <<top_, regions>>
    /\ UNCHANGED <<poolVars, shellVars, managerVars, terminalVars,
                   ioVars>>

\* deallocate_to(ptr): a pointer into stack_ becomes the new top_
deallocate_to(t, ptr) ==
    /\ sthr[t].pc = "idle"
    /\ IF ptr # NullPtr /\ ptr >= stack_begin /\ ptr < stack_begin + StackSize
         THEN top_' = ptr - stack_begin
         ELSE UNCHANGED top_
    /\ sthr' = [sthr EXCEPT ![t] =
                  [StackIdle EXCEPT !.pc = "ret", !.op = "deallocate_to",
                                    !.ret = ptr]]
    /\ UNCHANGED regions
    /\ UNCHANGED <<poolVars, shellVars, managerVars, terminalVars,
                   ioVars>>

\* reset(): top_.store(0)
reset(t) ==
    /\ sthr[t].pc = "idle"
    /\ top_' = 0
    /\ regions' = <<>>
    /\ sthr' = [sthr EXCEPT ![t] =
                  [StackIdle EXCEPT !.pc = "ret", !.op = "reset"]]
    /\ UNCHANGED <<poolVars, shellVars, managerVars, terminalVars,
                   ioVars>>

\* the call has returned to its caller
StackReturn(t) ==
    /\ sthr[t].pc = "ret"
    /\ sthr' = [sthr EXCEPT ![t] = StackIdle]
    /\ UNCHANGED <<top_, regions>>
    /\ UNCHANGED <<poolVars, shellVars, managerVars, terminalVars,
                   ioVars>>

\* Two threads allocate concurrently and reset the arena.
ArenaNext ==
    \E t \in StackThreads :
       \/ \E size \in StackSizes : StackAllocate(t, size)
       \/ StackCas(t)
       \/ reset(t)
       \/ StackReturn(t)

\* Two threads run every StackAllocator operation, allocating one aligned
\* unit or the largest aligned size.
StackNext ==
    \E t \in StackThreads :
       \/ \E size \in {MaxAlign, SizeRange - MaxAlign} : StackAllocate(t, size)
       \/ StackCas(t)
       \/ \E ptr \in StackPointers : deallocate_to(t, ptr)
       \/ reset(t)
       \/ StackReturn(t)

(***************************************************************************)
(* MemoryManager: three size-class pools, the system allocator for larger *)
(* requests, and the statistics.  A pool is taken by its contract: the    *)
(* lowest free slot, or null when every slot is in use.                    *)
(***************************************************************************)
MmThreads == {"a1", "a2"}
Classes == {"small", "medium", "large", "system"}
NullBlock == <<"none", 0>>

\* if (size <= 64) small; else if (size <= 512) medium; else if
\* (size <= 4096) large; else std::aligned_alloc
SizeClass(size) ==
    IF size <= SmallMax THEN "small"
    ELSE IF size <= MediumMax THEN "medium"
    ELSE IF size <= LargeMax THEN "large"
    ELSE "system"

\* MemoryPool::allocate() of a size-class pool with inuse taken: the block
\* of the lowest free slot, nullptr when there is none
PoolAllocate(class, inuse) ==
    LET free == (1 .. ClassSlots) \ inuse
    IN  IF free = {} THEN NullBlock
        ELSE <<class, CHOOSE k \in free : \A j \in free : k <= j>>

\* std::aligned_alloc(alignment, size): a fresh block, or null when the
\* system has no memory
SystemAllocate(inuse) ==
    {NullBlock} \cup
      {<<"system", CHOOSE k \in 1 .. MaxCalls : k \notin inuse>>}

\* sizeof(StorageBlock) of a MemoryPool<char, N>: char data[sizeof(char)]
\* under alignas(char) is one byte; a build that applies the leading
\* alignas(64) to the struct pads it to 64
StorageBlockSizes == {1, SmallMax}

\* &storage_[slot] as an offset into the pool's array, for a block of w bytes
SlotOffset(ptr, w) == (ptr[2] - 1) * w

\* sizes asked of the manager: the largest of each pool and the first
\* beyond the small and the large pool
ManagerSizes == {SmallMax, SmallMax + 1, MediumMax, LargeMax, LargeMax + 1}

\* released: the selected pool or std::free took the block back
MmIdle == [pc |-> "idle", op |-> "none", size |-> 0, current |-> 0,
           current_peak |-> 0, ret |-> NullBlock, released |-> FALSE]

ManagerInit ==
    /\ pools = [c \in Classes |-> {}]
    /\ total_allocated_ = 0
    /\ total_deallocated_ = 0
    /\ peak_usage_ = 0
    /\ mm = [t \in MmThreads |-> MmIdle]
    /\ blocks = {}
    /\ mstat = [calls |-> 0, high_water |-> 0]

\* MemoryManager::allocate(size, alignment): the pool of the size class or
\* the system allocator gives ptr; if (ptr) update_statistics(size, true)
MmAllocate(t, size) ==
    /\ mm[t].pc = "idle"
    /\ mstat.calls < MaxCalls
    /\ LET class == SizeClass(size)
       IN  \E ptr \in IF class = "system"
                        THEN SystemAllocate(pools[class])
                        ELSE {PoolAllocate(class, pools[class])} :
              /\ pools' = IF ptr = NullBlock THEN pools
                          ELSE [pools EXCEPT ![class] = @ \cup {ptr[2]}]
              /\ mm' = [mm EXCEPT ![t] =
                          [MmIdle EXCEPT
                             !.pc = IF ptr = NullBlock THEN "ret"
                                    ELSE "fetch_add",
                             !.op = "allocate", !.size = size,
                             !.ret = ptr]]
              /\ blocks' = IF ptr = NullBlock THEN blocks
                           ELSE blocks \cup {[ptr |-> ptr, size |-> size]}
    /\ mstat' = [mstat EXCEPT !.calls = @ + 1]
    /\ UNCHANGED <<total_allocated_, total_deallocated_, peak_usage_>>
    /\ UNCHANGED <<poolVars, shellVars, stackVars, terminalVars,
                   ioVars>>

\* MemoryManager::deallocate(ptr, size) of a block a caller holds, with the
\* size it was allocated with: the pool or std::free takes it back, then
\* update_statistics(size, false)
MmDeallocate(t, b) ==
    /\ mm[t].pc = "idle"
    /\ b \in blocks
    /\ \A u \in MmThreads : mm[u].pc # "idle" => mm[u].ret # b.ptr
    /\ pools' = [pools EXCEPT ![b.ptr[1]] = @ \ {b.ptr[2]}]
    /\ blocks' = blocks \ {b}
    /\ mm' = [mm EXCEPT ![t] =
                [MmIdle EXCEPT !.pc = "fetch_add", !.op = "deallocate",
                               !.size = b.size, !.ret = b.ptr,
                               !.released = TRUE]]
    /\ UNCHANGED <<total_allocated_, total_deallocated_, peak_usage_, mstat>>
    /\ UNCHANGED <<poolVars, shellVars, stackVars, terminalVars,
                   ioVars>>

\* the pointers a caller can pass to deallocate: null and the slots of the
\* three pools
MmPointers ==
    {NullBlock} \cup (({"small", "medium", "large"}) \X (1 .. ClassSlots))

\* MemoryPool::deallocate(ptr) of the pool selected by size clears a bit:
\* ptr lies in that pool and its slot is in use
PoolHolds(class, ptr) == ptr[1] = class /\ ptr[2] \in pools[class]

\* MemoryManager::deallocate(ptr, size) with a null ptr, or with a ptr the
\* pool selected by size rejects (foreign or already free): null returns at
\* once; otherwise the pool leaves its bits alone, deallocated = true
\* all the same, and update_statistics(size, false) follows
MmDeallocateRejected(t, ptr, size) ==
    /\ mm[t].pc = "idle"
    /\ mstat.calls < MaxCalls
    /\ SizeClass(size) # "system"
    /\ ptr = NullBlock \/ ~PoolHolds(SizeClass(size), ptr)
    /\ mm' = [mm EXCEPT ![t] =
                [MmIdle EXCEPT !.pc = IF ptr = NullBlock THEN "ret"
                                      ELSE "fetch_add",
                               !.op = "deallocate", !.size = size,
                               !.ret = ptr]]
    /\ mstat' = [mstat EXCEPT !.calls = @ + 1]
    /\ UNCHANGED <<pools, total_allocated_, total_deallocated_, peak_usage_,
                   blocks>>
    /\ UNCHANGED <<poolVars, shellVars, stackVars, terminalVars,
                   ioVars>>

\* the larger of two usages
Highest(a, b) == IF a >= b THEN a ELSE b

\* update_statistics: size_t current = total_allocated_.fetch_add(size), or
\* total_deallocated_.fetch_add(size)
MmFetchAdd(t) ==
    /\ mm[t].pc = "fetch_add"
    /\ IF mm[t].op = "allocate"
         THEN /\ total_allocated_' = total_allocated_ + mm[t].size
              /\ mm' = [mm EXCEPT ![t].current = total_allocated_,
                                  ![t].pc = "load_peak"]
              /\ mstat' = [mstat EXCEPT !.high_water =
                             Highest(@, total_allocated_' - total_deallocated_)]
              /\ UNCHANGED total_deallocated_
         ELSE /\ total_deallocated_' = total_deallocated_ + mm[t].size
              /\ mm' = [mm EXCEPT ![t].pc = "ret"]
              /\ UNCHANGED <<total_allocated_, mstat>>
    /\ UNCHANGED <<pools, peak_usage_, blocks>>
    /\ UNCHANGED <<poolVars, shellVars, stackVars, terminalVars,
                   ioVars>>

\* update_statistics: size_t current_peak = peak_usage_.load()
MmLoadPeak(t) ==
    /\ mm[t].pc = "load_peak"
    /\ mm' = [mm EXCEPT ![t].current_peak = peak_usage_, ![t].pc = "cas"]
    /\ UNCHANGED <<pools, total_allocated_, total_deallocated_, peak_usage_,
                   blocks, mstat>>
    /\ UNCHANGED <<poolVars, shellVars, stackVars, terminalVars,
                   ioVars>>

\* update_statistics: while (current > current_peak &&
\* !peak_usage_.compare_exchange_weak(current_peak, current)) {}; then the
\* histogram entry is counted under stats_mutex_
MmCas(t) ==
    /\ mm[t].pc = "cas"
    /\ IF mm[t].current > mm[t].current_peak
         THEN IF peak_usage_ = mm[t].current_peak
                THEN /\ peak_usage_' = mm[t].current
                     /\ mm' = [mm EXCEPT ![t].pc = "ret"]
                ELSE /\ mm' = [mm EXCEPT ![t].current_peak = peak_usage_]
                     /\ UNCHANGED peak_usage_
         ELSE /\ mm' = [mm EXCEPT ![t].pc = "ret"]
              /\ UNCHANGED peak_usage_
    /\ UNCHANGED <<pools, total_allocated_, total_deallocated_, blocks, mstat>>
    /\ UNCHANGED <<poolVars, shellVars, stackVars, terminalVars,
                   ioVars>>

\* allocate / deallocate has returned to its caller
MmReturn(t) ==
    /\ mm[t].pc = "ret"
    /\ mm' = [mm EXCEPT ![t] = MmIdle]
    /\ UNCHANGED <<pools, total_allocated_, total_deallocated_, peak_usage_,
                   blocks, mstat>>
    /\ UNCHANGED <<poolVars, shellVars, stackVars, terminalVars,
                   ioVars>>

\* MemoryManager::get_stats(): the totals, their difference and the peak
get_stats ==
    [total_allocated |-> total_allocated_,
     total_deallocated |-> total_deallocated_,
     current_usage |-> total_allocated_ - total_deallocated_,
     peak_usage |-> peak_usage_]

\* Two threads allocate from the manager and give blocks back.
ManagerNext ==
    \E t \in MmThreads :
       \/ \E size \in ManagerSizes : MmAllocate(t, size)
       \/ \E b \in blocks : MmDeallocate(t, b)
       \/ MmFetchAdd(t) \/ MmLoadPeak(t) \/ MmCas(t) \/ MmReturn(t)

\* Two threads allocate from the manager, give blocks back, and also pass
\* deallocate null, foreign and already-free pointers.
RejectNext ==
    \E t \in MmThreads :
       \/ \E size \in ManagerSizes : MmAllocate(t, size)
       \/ \E b \in blocks : MmDeallocate(t, b)
       \/ \E ptr \in MmPointers, size \in ManagerSizes :
             MmDeallocateRejected(t, ptr, size)
       \/ MmFetchAdd(t) \/ MmLoadPeak(t) \/ MmCas(t) \/ MmReturn(t)

(***************************************************************************)
(* Terminal: executeCommand and the command history.  A command is the    *)
(* sequence of its characters.                                             *)
(***************************************************************************)
Whitespace == {" ", "\t", "\n"}

\* the commands given to the terminal: empty, blank, built-ins, a program
Commands ==
    {<<>>, <<" ", " ", " ">>, <<"\t", "\n">>, <<"p", "w", "d">>,
     <<"l", "s">>, <<" ", "l", "s">>}

\* std::string::empty()
empty(command) == Len(command) = 0

\* History::addCommand(command): the command is put at the end
addCommand(commands, command) == Append(commands, command)

\* History::getCommands() through Terminal::getHistory()
getHistory == m_history

TerminalInit ==
    /\ m_history = <<>>
    /\ tcall = [op |-> "none", command |-> <<>>, calls |-> 0]

\* Terminal::addToHistory(command): m_history->addCommand(command)
addToHistory(command) ==
    /\ tcall.calls < MaxTerminalCalls
    /\ m_history' = addCommand(m_history, command)
    /\ tcall' = [op |-> "addToHistory", command |-> command,
                 calls |-> tcall.calls + 1]
    /\ UNCHANGED <<poolVars, shellVars, stackVars, managerVars,
                   ioVars>>

\* Terminal::executeCommand(command): if (command.empty()) return;
\* addToHistory(command); then the command is parsed and run, which leaves
\* the history alone
executeCommand(command) ==
    /\ tcall.calls < MaxTerminalCalls
    /\ m_history' = IF empty(command) THEN m_history
                    ELSE addCommand(m_history, command)
    /\ tcall' = [op |-> "executeCommand", command |-> command,
                 calls |-> tcall.calls + 1]
    /\ UNCHANGED <<poolVars, shellVars, stackVars, managerVars,
                   ioVars>>

\* Commands are executed and added to the history in every order.
TerminalNext ==
    \E command \in Commands :
       executeCommand(command) \/ addToHistory(command)

(***************************************************************************)
(* ProcessIO with the storage behind its buffers.  A buffer is the         *)
(* sequence of the cells of its char array (its length is the capacity);   *)
(* a cell holds 0 until a byte is copied into it.  The bytes of a chunk    *)
(* carry the number of the append that brought them.                       *)
(***************************************************************************)
Streams == {"stdout", "stderr"}

\* std::make_unique<char[]>(n): n value-initialised cells
MakeBuffer(n) == [i \in 1 .. n |-> 0]

\* the chunk of n bytes of the next append
NextChunk(n) == [i \in 1 .. n |-> pio.appends + 1]

\* the replacement capacity without the std::max
TwiceBufferSize(size, n) == BUFFER_SIZE * 2

\* size_t new_size = std::max(BUFFER_SIZE * 2, stdout_size_ + size)
NewSize(size, n) ==
    IF BUFFER_SIZE * 2 >= size + n THEN BUFFER_SIZE * 2 ELSE size + n

\* std::memcpy(dst + at, src, n): the cells of dst that lie inside the array
\* take the bytes of src
memcpy(dst, at, src, n) ==
    [i \in 1 .. Len(dst) |->
        IF i > at /\ i <= at + n THEN src[i - at] ELSE dst[i]]

\* appendStdout / appendStderr on one stream: if the chunk does not fit into
\* BUFFER_SIZE, a new array of NewSize cells takes the stored bytes and
\* replaces the old one; the chunk is copied behind them and the size grows
AppendTo(buf, size, data) ==
    LET n == Len(data)
        target == IF size + n > BUFFER_SIZE
                    THEN memcpy(MakeBuffer(NewSize(size, n)), 0, buf, size)
                    ELSE buf
    IN  [cells |-> memcpy(target, size, data, n),
         size |-> size + n,
         overrun |-> size + n > Len(target)]

PioInit ==
    /\ io_ = [cells |-> [s \in Streams |-> MakeBuffer(BUFFER_SIZE)],
              size |-> [s \in Streams |-> 0]]
    /\ pio = [appends |-> 0, op |-> "none", stream |-> "none", data |-> <<>>,
              cleared |-> FALSE, overrun |-> FALSE]

\* ProcessIO::appendStdout(data, size) / appendStderr(data, size)
PioAppend(s, data) ==
    /\ pio.appends < MaxAppends
    /\ LET r == AppendTo(io_.cells[s], io_.size[s], data)
       IN  /\ io_' = [io_ EXCEPT !.cells[s] = r.cells, !.size[s] = r.size]
           /\ pio' = [pio EXCEPT !.appends = @ + 1, !.op = "append",
                                 !.stream = s, !.data = data,
                                 !.overrun = @ \/ r.overrun]
    /\ UNCHANGED <<poolVars, shellVars, stackVars, managerVars, terminalVars>>

appendStdoutCall == \E n \in 1 .. MaxChunk : PioAppend("stdout", NextChunk(n))
appendStderrCall == \E n \in 1 .. MaxChunk : PioAppend("stderr", NextChunk(n))

\* ProcessIO::clear(): stdout_size_ = 0; stderr_size_ = 0
clear ==
    /\ pio.op # "clear"
    /\ io_' = [io_ EXCEPT !.size = [s \in Streams |-> 0]]
    /\ pio' = [pio EXCEPT !.op = "clear", !.stream = "none", !.data = <<>>,
                          !.cleared = TRUE]
    /\ UNCHANGED <<poolVars, shellVars, stackVars, managerVars, terminalVars>>

\* std::string(buffer.get(), size): the stored bytes of a stream
Stored(s) == SubSeq(io_.cells[s], 1, io_.size[s])

\* Chunks are appended to either stream and clear() is called in every order.
PioNext == appendStdoutCall \/ appendStderrCall \/ clear

Init ==
    PoolInit /\ ShellInit /\ StackInit /\ ManagerInit /\ TerminalInit /\ PioInit

SpecPool == Init /\ [][PoolNext]_vars

Spec == Init /\ [][ShellNext]_vars

SpecForced == Init /\ [][ForcedNext]_vars

SpecPoll == Init /\ [][PollNext]_vars /\ PollFairness

SpecSync == Init /\ [][SyncNext]_vars /\ SyncFairness

SpecSpawn == Init /\ [][SpawnNext]_vars

SpecDirect == Init /\ [][DirectNext]_vars

SpecIo == Init /\ [][IoNext]_vars

SpecOutput == Init /\ [][OutputNext]_vars

SpecLookup == Init /\ [][LookupNext]_vars

SpecExec == Init /\ [][ExecNext]_vars

SpecCd == Init /\ [][CdNext]_vars

SpecBuiltin == Init /\ [][BuiltinNext]_vars

SpecStreams == Init /\ [][StreamNext]_vars

SpecArena == Init /\ [][ArenaNext]_vars

SpecStack == Init /\ [][StackNext]_vars

SpecManager == Init /\ [][ManagerNext]_vars

SpecTerminal == Init /\ [][TerminalNext]_vars

SpecReject == Init /\ [][RejectNext]_vars

SpecBuffers == Init /\ [][PioNext]_vars

SpecCleanup == Init /\ [][CleanupNext]_vars /\ CleanupFairness

SpecReenter == Init /\ [][ReenterNext]_vars /\ ReenterFairness

(***************************************************************************)
(* Claims about MemoryPool.                                                *)
(***************************************************************************)

\* C9: under every interleaving of allocate() and deallocate(), a non-null
\* pointer returned by allocate() never addresses a slot that a live (not yet
\* deallocated) allocation holds, and every live slot has its bit set, so a
\* slot is handed out again only after deallocate() cleared its bit.
C9_NoLiveSlotReissued ==
    [][ /\ \A t \in PoolThreads :
             (mpc[t] = "alloc" /\ mpc'[t] = "idle" /\ mret'[t] # NullPtr)
                 => /\ InPool(mret'[t])
                    /\ SlotOf(mret'[t]) \notin live
                    /\ ~used_[SlotOf(mret'[t])]
        /\ \A s \in live' : used_'[s] ]_vars

\* C9 witness: two threads hold distinct live slots, one of them a slot
\* that had been released before and was handed out again.
C9_Witness ==
    \E t, u \in PoolThreads :
        /\ t # u
        /\ mret[t] # NullPtr /\ mret[u] # NullPtr /\ mret[t] # mret[u]
        /\ SlotOf(mret[t]) \in live /\ SlotOf(mret[u]) \in live
        /\ SlotOf(mret[t]) \in freed
        /\ mpc[t] = "idle" /\ mpc[u] = "idle"

\* C10: in every reachable state allocated_count_ is the number of set bits
\* of used_, so 0 <= allocated() <= N and allocated() + available() = N.
C10_CountIsPopcount ==
    /\ allocated_count_ = Popcount(used_)
    /\ 0 <= allocated /\ allocated <= PoolSize
    /\ allocated + available = PoolSize

\* C10 witness: the pool is full again after a slot had been released.
C10_Witness ==
    /\ allocated_count_ = PoolSize
    /\ freed # {}
    /\ pool_mutex_ = "none"


\* thread t enters allocate() / returns from allocate() in this step
AllocateEnters(t) == mpc[t] = "idle" /\ mpc'[t] = "alloc"
AllocateReturns(t) == mpc[t] = "alloc" /\ mpc'[t] = "idle"

\* C11: allocate() returns null exactly when all PoolSize slots are in use,
\* and then changes neither used_, allocated_count_ nor next_free_; when a
\* slot is free it returns a slot of the pool, wherever the cursor points.
C11_NullExactlyWhenFull ==
    [][\A t \in PoolThreads :
         /\ (AllocateEnters(t) /\ Popcount(used_) = PoolSize)
              => UNCHANGED <<used_, allocated_count_, next_free_>>
         /\ AllocateReturns(t) =>
              /\ (mret'[t] = NullPtr) <=> (Popcount(used_) = PoolSize)
              /\ mret'[t] = NullPtr
                    => UNCHANGED <<used_, allocated_count_, next_free_>>
              /\ mret'[t] # NullPtr
                    => (InPool(mret'[t]) /\ ~used_[SlotOf(mret'[t])]
                        /\ used_'[SlotOf(mret'[t])])]_vars

\* the pool is full and the last allocate() of every thread returned null
\* (one of them was called on the full pool), after a slot below the cursor
\* had been released and handed out again
C11_Witness ==
    /\ Popcount(used_) = PoolSize
    /\ freed # {}
    /\ \A t \in PoolThreads : mpc[t] = "idle" /\ mret[t] = NullPtr

\* ptr is null, lies outside the backing storage, or addresses a slot whose
\* bit is clear
NothingToRelease(ptr) ==
    \/ ptr = NullPtr
    \/ ~InPool(ptr)
    \/ ~used_[SlotOf(ptr)]

\* thread t returns from deallocate(mptr[t]) in this step
DeallocateReturns(t) == mpc[t] = "dealloc" /\ mpc'[t] = "idle"

\* C12: deallocate(ptr) with a null pointer, a pointer outside the backing
\* storage or a pointer to a slot whose bit is clear is a no-op: its guard
\* never lets it release anything, and the call leaves used_,
\* allocated_count_ and next_free_ unchanged.
C12_ForeignDeallocateIsNoOp ==
    /\ [](\A ptr \in Pointers :
             NothingToRelease(ptr) => ~Releases(used_, ptr))
    /\ [][\A t \in PoolThreads :
             (DeallocateReturns(t) /\ NothingToRelease(mptr[t]))
               => UNCHANGED <<used_, allocated_count_, next_free_>>]_vars

\* with slots in use, a thread is inside deallocate() with a pointer outside
\* the storage, and another with a pointer to a slot released before
C12_Witness ==
    /\ allocated_count_ > 0
    /\ \E t \in PoolThreads :
          /\ mpc[t] = "dealloc" /\ pool_mutex_ = t
          /\ \/ ~InPool(mptr[t])
             \/ (SlotOf(mptr[t]) \in freed /\ ~used_[SlotOf(mptr[t])])

(***************************************************************************)
(* Process lifecycle.                                                      *)
(***************************************************************************)
\* C1: terminal states are absorbing.  Once a live ManagedProcess's state
\* is Completed, Failed or Terminated, no step of any thread (terminate,
\* suspend, resume, the I/O thread) changes its state again.
C1_TerminalAbsorbing ==
    [][\A o \in Objs :
         (procs[o].life = "alive" /\ procs[o].info_.state \in Terminal)
           => (procs'[o].life # "alive"
               \/ procs'[o].info_.state = procs[o].info_.state)]_vars

\* a process is in a terminal state while a call on it or its I/O thread is
\* still about to write info_.state
C1_Witness ==
    \E o \in Objs :
        /\ procs[o].life = "alive"
        /\ procs[o].info_.state \in Terminal
        /\ \/ iot[o].pc = "state"
           \/ \E t \in Callers :
                thr[t].cur = o
                /\ thr[t].pc \in {"term_state", "susp_state", "res_state"}

\* C2: once terminateProcess(pid, true) has returned true, no
\* getProcessInfo(pid) (taken under the shared lock) reports Running.
C2_NeverRunningAfterForcedTerminate ==
    \A pid \in hist.term_true :
        CanLockShared => getProcessInfo(pid).state # "Running"

\* terminateProcess(pid, true) has returned true for a pid in the table
C2_Witness ==
    \E pid \in hist.term_true : pid \in DOMAIN active_processes_

\* the process that executeAsync started under this pid has exited
Exited(pid) ==
    \E o \in Objs :
        hist.key_of[o] = pid /\ child[o].st \in {"zombie", "reaped"}

\* C3: for every pid executeAsync returned whose process exits, a fairly
\* scheduled poller of getProcessInfo(pid) eventually gets a terminal state.
C3_PollEventuallyTerminal ==
    \A pid \in PidArgs :
        (pid \in hist.returned /\ Exited(pid)) ~> (pid \in hist.seen_terminal)

\* C4: the ProcessInfo executeSync returns for a spawned command is final:
\* its state is Completed, Failed or Terminated and end_time is recorded.
C4_SyncReturnsFinalInfo ==
    \A t \in Callers :
        thr[t].pc = "sync_ret"
          => (thr[t].info.state \in Terminal /\ thr[t].info.end_time # 0)

Tabled == {o \in Objs : hist.kind[o] \in {"async", "interactive"}
                          /\ hist.key_of[o] # 0}

\* C6: any two executeAsync / executeInteractive calls, concurrent or not,
\* get distinct pids and distinct table entries: no insertion replaces an
\* entry that is already there, and next_pid_ never decreases.
C6_DistinctPids ==
    /\ [](\A o1, o2 \in Tabled :
             o1 # o2 => hist.key_of[o1] # hist.key_of[o2])
    /\ [](\A k \in DOMAIN active_processes_ :
             hist.key_of[active_processes_[k]] = k)
    /\ [][/\ next_pid_' >= next_pid_
          /\ \A k \in DOMAIN active_processes_ \cap DOMAIN active_processes_' :
                active_processes_'[k] = active_processes_[k]]_vars

\* two calls that ran concurrently have both inserted their process
C6_Witness ==
    /\ Cardinality(DOMAIN active_processes_) = 2
    /\ Cardinality(hist.returned) = 2
    /\ next_pid_ = FirstPid + 2
    /\ \A t \in Callers : thr[t].pc = "idle"

\* thread t returns from shutdown() in this step
ShutdownReturns(t) == thr[t].pc = "sd_clear" /\ thr'[t].pc = "idle"

\* C7: when shutdown() returns, the process table is empty, the cleanup
\* thread has exited, the I/O thread of every process that was in the table
\* has been joined, and no ManagedProcess of the shell is still Running.
C7_ShutdownLeavesNothingRunning ==
    [][\A t \in Callers :
         ShutdownReturns(t) =>
           /\ active_processes_' = EmptyTable
           /\ thr'[CleanupThread].pc \in {"none", "cl_exited"}
           /\ \A o \in Objs :
                 hist.key_of[o] \in hist.returned =>
                   (iot'[o].pc = "exited" /\ ~procs'[o].joinable)
           /\ \A o \in Objs :
                 procs'[o].life = "alive" =>
                   procs'[o].info_.state # "Running"]_vars

\* the cleanup pass is erasing the entry of object thr[CleanupThread].cur
CleanupErasing ==
    \/ thr[CleanupThread].pc = "cl_erase"
    \/ "cl_erase" \in Range(thr[CleanupThread].stack)

\* thread t calls start() on object o in this step
StartCalled(t, o) ==
    /\ thr[t].pc = "idle"
    /\ thr'[t].pc \in {"start_ret", "aborted"}
    /\ IF thr'[t].pc = "start_ret" THEN thr'[t].cur = o
       ELSE procs[o].life = "alive" /\ procs'[o].life = "aborted"

\* C13: start() on a running process returns false and changes nothing;
\* otherwise it sets state Running and running_, spawns the I/O thread and
\* returns true; at most one I/O thread exists per ManagedProcess at any
\* time.
C13_StartSpawnsOneIoThread ==
    /\ [](\A o \in Objs : IoThreadCount(o) <= 1)
    /\ [][\A t \in Callers, o \in Objs :
             StartCalled(t, o) =>
               IF procs[o].running_
                 THEN /\ thr'[t].result = FALSE
                      /\ UNCHANGED <<procs, iot, child>>
                 ELSE /\ thr'[t].pc = "start_ret"
                      /\ thr'[t].result = TRUE
                      /\ procs'[o].info_.state = "Running"
                      /\ procs'[o].running_
                      /\ iot'[o].pc = "loop"]_vars

\* start() was called on a process whose earlier I/O thread reaped the child
\* and was never joined
C13_Witness ==
    \E o \in Objs : procs[o].life = "aborted" /\ hist.starts[o] = 2

\* thread t is at the entry of terminate() on a process whose state is
\* terminal
TerminateOnTerminal(t) == thr[t].pc = "term" /\ isComplete(thr[t].cur)

\* C14: terminate() on a process that has reached a terminal state returns
\* true at once, changes no field of its ProcessInfo and does not invoke the
\* completion callback.
C14_TerminateIdempotent ==
    [][\A t \in Threads :
         TerminateOnTerminal(t) /\ thr'[t] # thr[t] =>
           /\ thr'[t].pc = Head(thr[t].stack)
           /\ thr'[t].result = TRUE
           /\ getInfo(thr[t].cur)' = getInfo(thr[t].cur)
           /\ hist'.completions = hist.completions
           /\ UNCHANGED <<procs, iot, child>>]_vars

\* terminateProcess() is about to return true for a process that its I/O
\* thread completed earlier, with the callback invoked once
C14_Witness ==
    \E t \in Callers :
       /\ thr[t].pc = "tp_ret" /\ thr[t].result
       /\ LET o == thr[t].cur
          IN  /\ procs[o].info_.state = "Completed"
              /\ iot[o].pc = "exited"
              /\ hist.completions[o] = 1

\* the handle of o is invalid, or no process answers to its pid any more
SignalUndeliverable(o) ==
    procs[o].handle_pid <= 0 \/ child[o].st \in {"none", "reaped"}

\* thread t takes a step of its own from position pc
StepsFrom(t, pc) ==
    thr[t].pc = pc /\ thr'[t] # thr[t] /\ thr'[t].pc # "aborted"

\* what a signal call that fails must leave alone
SignalCallNoOp(t, o) ==
    /\ thr'[t].result = FALSE
    /\ procs'[o] = procs[o]
    /\ iot'[o] = iot[o]
    /\ child'[o] = child[o]
    /\ hist'.completions = hist.completions

ReturnsFalseAt(t, pc) ==
    /\ thr[t].pc = pc /\ ~thr[t].result
    /\ thr[t].cur \in Objs
    /\ SignalUndeliverable(thr[t].cur)

SendInputCalled(t, o) == StepsFrom(t, "idle") /\ thr'[t].pc = "send_ret"
                         /\ thr'[t].cur = o

\* C16: sendInput() returns false and writes nothing whenever the process's
\* state is not Running or its input stream is unavailable.
C16_SendInputOnlyWhenRunning ==
    [][\A t \in Callers, o \in Objs :
         (/\ SendInputCalled(t, o)
          /\ \/ procs[o].info_.state # "Running"
             \/ ~StdinAvailable(procs[o]))
           => /\ thr'[t].result = FALSE
              /\ procs'[o].stdin_written = procs[o].stdin_written]_vars

\* sendInput() returned true for a suspended process and its bytes are in
\* the pipe
C16_Witness ==
    \E t \in Callers :
       /\ thr[t].pc = "send_ret" /\ thr[t].result
       /\ procs[thr[t].cur].info_.state = "Suspended"
       /\ child[thr[t].cur].st = "stopped"
       /\ procs[thr[t].cur].stdin_written = 1

\* thread t calls readOutput() on object o in this step
ReadOutputCalled(t, o) == StepsFrom(t, "idle") /\ thr'[t].pc = "read_ret"
                          /\ thr'[t].cur = o

\* thread t calls hasOutput() on object o in this step
HasOutputCalled(t, o) == StepsFrom(t, "idle") /\ thr'[t].pc = "has_ret"
                         /\ thr'[t].cur = o

\* C17: readOutput() drains: no byte is returned by two calls; with
\* max_bytes > 0 at most max_bytes bytes are returned and the rest stays
\* available; after a full drain hasOutput() is false until new output
\* arrives.
C17_ReadOutputDrains ==
    [][\A t \in Callers, o \in Objs :
         /\ ReadOutputCalled(t, o) =>
              /\ Range(thr'[t].out) \cap hist.delivered[o] = {}
              /\ thr'[t].max_bytes > 0
                   => Len(thr'[t].out) <= thr'[t].max_bytes
              /\ Range(getAllOutput(procs[o])) \ Range(thr'[t].out)
                   \subseteq Range(getAllOutput(procs'[o]))
         /\ (HasOutputCalled(t, o) /\ hist.drained[o])
              => thr'[t].result = FALSE]_vars

\* a second readOutput() returned a byte that an earlier call had returned
C17_Witness ==
    \E t \in Callers :
       /\ thr[t].pc = "read_ret"
       /\ thr[t].out # <<>>
       /\ hist.drained[thr[t].cur]
       /\ hist.delivered[thr[t].cur] = Range(thr[t].out)
       /\ \E u \in Callers \ {t} :
             thr[u].pc = "read_ret" /\ thr[u].out = thr[t].out

\* thread t makes a per-pid call in this step with a pid outside the table
UnknownPidCalled(t) ==
    /\ StepsFrom(t, "idle")
    /\ thr'[t].pid \in PidArgs
    /\ thr'[t].pid \notin DOMAIN active_processes_

ExecuteRefused(t, k) ==
    StepsFrom(t, "idle") /\ thr'[t].pc = "exec_ret" /\ thr'[t].op = k

\* C19: for a command that does not parse, executeSync returns state Failed
\* with exit_code -1, executeAsync and executeInteractive return -1, and
\* none of them adds a table entry, advances the pid counter, creates a
\* process or starts a thread.
C19_InvalidCommandRefused ==
    [][\A t \in Callers :
         /\ ExecuteRefused(t, "sync") =>
              /\ thr'[t].info.state = "Failed"
              /\ thr'[t].info.exit_code = -1
         /\ (ExecuteRefused(t, "async") \/ ExecuteRefused(t, "interactive"))
              => thr'[t].pid = -1
         /\ thr'[t].pc = "exec_ret" /\ thr[t].pc # "exec_ret" =>
              /\ thr[t].pc = "idle"
              /\ UNCHANGED <<active_processes_, next_pid_, nobj, procs, iot,
                             child>>]_vars

\* after the counter has advanced and a process has been tabled, one thread
\* gets Failed / -1 from executeSync and the other -1 from executeAsync
C19_Witness ==
    /\ thr["c1"].pc = "exec_ret" /\ thr["c1"].op = "sync"
    /\ thr["c2"].pc = "exec_ret" /\ thr["c2"].op = "async"
    /\ next_pid_ > FirstPid
    /\ active_processes_ # EmptyTable

\* thread t runs the built-in cd in this step
CdCalled(t) ==
    StepsFrom(t, "idle") /\ thr'[t].pc = "builtin_ret" /\ thr'[t].op = "cd"

\* C20: a built-in cd whose directory change fails returns state Failed
\* with exit_code 1 and leaves getCurrentDirectory() and the process table
\* unchanged; a cd to a path that does not exist is such a failure.
C20_FailedCdChangesNothing ==
    [][\A t \in Callers :
         CdCalled(t) =>
           /\ (thr'[t].args # <<>> /\ thr'[t].args[1] \notin Dirs)
                => ~thr'[t].result
           /\ ~thr'[t].result =>
                /\ thr'[t].info.state = "Failed"
                /\ thr'[t].info.exit_code = 1
                /\ UNCHANGED <<current_directory_, active_processes_,
                               procs, next_pid_>>]_vars

\* after a cd that succeeded and with a process in the table, cd to a
\* missing path has returned Failed
C20_Witness ==
    \E t \in Callers :
       /\ thr[t].pc = "builtin_ret" /\ thr[t].op = "cd"
       /\ thr[t].args = <<"/missing">>
       /\ thr[t].info.state = "Failed"
       /\ current_directory_ = "/tmp"
       /\ active_processes_ # EmptyTable

Builtins == {"cd", "kill"} \cup SimpleBuiltins

\* thread t takes a step inside executeSync of a built-in
BuiltinSteps(t) ==
    /\ thr'[t] # thr[t] /\ thr'[t].pc # "aborted"
    /\ thr[t].op \in Builtins \/ thr'[t].op \in Builtins

\* the std::thread objects that stand for an I/O thread
IoThreadSet == {o \in Objs : procs[o].joinable}

\* executeSync("echo ...") hands back Completed / 0
EchoCompletes(t) ==
    (thr'[t].op = "echo" /\ thr'[t].pc = "builtin_ret")
      => thr'[t].info.state = "Completed" /\ thr'[t].info.exit_code = 0

\* C21 as stated: executeSync of any built-in returns a synthetic
\* ProcessInfo and leaves the process table, the pid counter and the set of
\* I/O threads unchanged.
C21_BuiltinLeavesIoThreads ==
    [][\A t \in Callers :
         BuiltinSteps(t) =>
           /\ EchoCompletes(t)
           /\ UNCHANGED <<active_processes_, next_pid_>>
           /\ IoThreadSet' = IoThreadSet]_vars

\* C21 amended: executeSync of a built-in creates no process, leaves the
\* table and the pid counter unchanged and starts no I/O thread; every
\* built-in but kill leaves every process and I/O thread as it was, and kill
\* can only stop the I/O thread of its target.
C21_BuiltinSpawnsNothing ==
    [][\A t \in Callers :
         BuiltinSteps(t) =>
           /\ EchoCompletes(t)
           /\ UNCHANGED <<active_processes_, next_pid_, nobj>>
           /\ IoThreadSet' \subseteq IoThreadSet
           /\ (thr[t].op # "kill" /\ thr'[t].op # "kill")
                => UNCHANGED <<procs, iot, child>>
           /\ \A o \in IoThreadSet \ IoThreadSet' : o = thr[t].cur]_vars

\* kill has joined the I/O thread of its target and returns Completed while
\* the other caller gets Completed / 0 from echo
C21_Witness ==
    \E t \in Callers, u \in Callers :
       /\ thr[t].pc = "builtin_ret" /\ thr[t].op = "kill"
       /\ thr[t].info.state = "Completed"
       /\ thr[t].pid \in DOMAIN active_processes_
       /\ ~procs[active_processes_[thr[t].pid]].joinable
       /\ thr[u].pc = "builtin_ret" /\ thr[u].op = "echo"
       /\ thr[u].info.state = "Completed"

\* the argument words that std::stoi cannot convert: no digit at the front
Unparsable == {<<"x">>, <<>>}

\* thread t calls the kill built-in in this step
KillCalled(t) ==
    /\ thr[t].pc = "idle"
    /\ thr'[t].op = "kill"
    /\ thr'[t].pc \in {"term", "builtin_ret"}

\* the kill built-in returns Failed / exit_code 1 in this step
KillFailed(t) ==
    /\ thr'[t].pc = "builtin_ret"
    /\ thr'[t].info.state = "Failed"
    /\ thr'[t].info.exit_code = 1

\* kill with the decimal text of pid runs terminate(false) on the process
\* the table holds under pid, or fails when the table holds none
KillDispatched(t) ==
    LET args == thr'[t].args
    IN  /\ (args = <<>> \/ args[1] \in Unparsable) =>
              KillFailed(t) /\ UNCHANGED <<procs, child, iot, readers>>
        /\ \A pid \in PidArgs :
              (args # <<>> /\ args[1] = Decimal(pid)) =>
                 IF pid \in DOMAIN active_processes_
                   THEN /\ thr'[t].pc = "term"
                        /\ thr'[t].cur = active_processes_[pid]
                        /\ ~thr'[t].force
                   ELSE KillFailed(t)

\* kill returns Completed / 0 exactly when terminateProcess returned true
KillReported(t) ==
    /\ thr'[t].pc = "builtin_ret"
    /\ thr'[t].info.state = (IF thr[t].result THEN "Completed" ELSE "Failed")
    /\ thr'[t].info.exit_code = (IF thr[t].result THEN 0 ELSE 1)

\* C22 (first two sentences): the kill built-in with a numeric first
\* argument invokes terminateProcess on that pid and returns Completed /
\* exit_code 0 exactly when that call returned true, otherwise Failed /
\* exit_code 1; with no argument or an unparsable argument it returns
\* Failed / exit_code 1 and touches no process.
C22_KillReportsTerminate ==
    [][\A t \in Callers :
          /\ KillCalled(t) => KillDispatched(t)
          /\ StepsFrom(t, "kill_ret") => KillReported(t)]_vars

\* the kill built-in found its target running, delivered the signal and
\* terminate() is about to return true
KillDelivered(t) ==
    thr[t].pc = "term_notify" /\ thr[t].stack = <<"kill_ret">>

\* C22 (last sentence): for a running target of the kill built-in, the
\* target then reaches Completed or Terminated.
C22_KilledTargetEnds ==
    \A t \in Callers :
       KillDelivered(t) =>
          procs[thr[t].cur].info_.state \in {"Completed", "Terminated"}

\* C22: the kill built-in reports what terminateProcess returned, fails on
\* a missing or unparsable argument without touching a process, and leaves
\* a running target Completed or Terminated.
C22_KillBuiltin == []C22_KilledTargetEnds /\ C22_KillReportsTerminate

\* a kill on a running target returned Completed / 0 and the target is
\* Terminated, while the other caller's kill without a number failed
C22_Witness ==
    /\ thr["c1"].pc = "builtin_ret" /\ thr["c1"].op = "kill"
    /\ thr["c1"].info.state = "Completed"
    /\ thr["c1"].cur \in Objs
    /\ procs[thr["c1"].cur].info_.state = "Terminated"
    /\ thr["c2"].pc = "builtin_ret" /\ thr["c2"].op = "kill"
    /\ thr["c2"].args = <<(<<"x">>)>>
    /\ thr["c2"].info.state = "Failed"

\* every byte of the sequence was written by the child of process o
OnlyFrom(o, bytes) == \A b \in Range(bytes) : WrittenBy(b) = o

\* C23: bytes read from one process's output descriptors are appended only
\* to that process's ProcessIO and passed only to that process's output
\* callback: in every interleaving of the I/O threads, no output event and
\* no readOutput result for one pid carries a byte written by another.
C23_OutputIsolation ==
    /\ \A o \in Objs :
          /\ OnlyFrom(o, getStdout(procs[o]))
          /\ OnlyFrom(o, getStderr(procs[o]))
          /\ \A i \in 1 .. Len(events[o]) : OnlyFrom(o, events[o][i].output)
    /\ \A t \in Callers :
          thr[t].pc = "read_ret" =>
             \A b \in Range(thr[t].out) :
                hist.key_of[WrittenBy(b)] = thr[t].pid

\* both I/O threads are between read() and the callback, each process has
\* had an output event, and readOutput of the second pid returned bytes
C23_Witness ==
    /\ iot[1].pc \in {"out_append", "err_append"}
    /\ iot[2].pc \in {"out_notify", "err_notify"}
    /\ events[1] # <<>> /\ events[2] # <<>>
    /\ thr[Reader].pc = "read_ret"
    /\ thr[Reader].pid = FirstPid + 1
    /\ thr[Reader].out # <<>>

\* the chunks of one stream, and their bytes put end to end
OfStream(chunks, is_error) ==
    SelectSeq(chunks, LAMBDA c : c.is_error = is_error)
RECURSIVE Concatenated(_)
Concatenated(chunks) ==
    IF chunks = <<>> THEN <<>>
    ELSE Head(chunks).output \o Concatenated(Tail(chunks))

IsPrefix(a, b) == Len(a) <= Len(b) /\ SubSeq(b, 1, Len(a)) = a

\* the chunks of process o that read() has returned and the I/O thread has
\* passed to appendStdout / appendStderr
Appended(o) ==
    IF iot[o].pc \in {"out_append", "err_append"}
      THEN SubSeq(reads[o], 1, Len(reads[o]) - 1)
      ELSE reads[o]

EndTimeMeansEnded(info) == info.end_time # 0 => info.state \in Terminal

\* C25: in every reachable state of a ManagedProcess, and in every
\* ProcessInfo the shell returns, end_time is set (non-zero) only if the
\* state is Completed, Failed or Terminated.
C25_EndTimeOnlyWhenEnded ==
    /\ \A o \in Objs : EndTimeMeansEnded(procs[o].info_)
    /\ \A t \in Callers : EndTimeMeansEnded(thr[t].info)

\* a process has ended with its end_time set and executeSync returns that
\* ProcessInfo
C25_Witness ==
    \E t \in Callers :
       /\ thr[t].pc = "sync_ret"
       /\ thr[t].info.end_time # 0
       /\ thr[t].info.state \in Terminal

\* thread t runs reset() in this step
ResetStep(t) ==
    sthr[t].pc = "idle" /\ sthr'[t].pc = "ret" /\ sthr'[t].op = "reset"

\* C26: for a StackAllocator, used() is non-decreasing between two
\* consecutive reset() calls, whatever StackAllocator operations run in
\* between, and used() == 0 immediately after reset().
C26_UsedGrowsUntilReset ==
    [][/\ used' < used => \E t \in StackThreads : ResetStep(t)
       /\ \A t \in StackThreads : ResetStep(t) => used' = 0]_vars

\* one thread has reset the arena to used() == 0 after the other was given
\* a region
C26_Witness ==
    /\ sthr["s1"].pc = "ret" /\ sthr["s1"].op = "reset"
    /\ used = 0
    /\ sthr["s2"].pc = "ret" /\ sthr["s2"].op = "allocate"
    /\ sthr["s2"].ret # NullPtr

\* the size rounded up to the alignment, without the limit of size_t
AlignedSize(n) == ((n + MaxAlign - 1) \div MaxAlign) * MaxAlign

\* a request of size bytes fits behind the offset top
Fits(top, size) == AlignedSize(top) + AlignedSize(size) <= StackSize

\* two regions share a byte
Overlap(r, q) == r.base < q.base + q.size /\ q.base < r.base + r.size

\* thread t returns from allocate in this step
StackAllocateReturns(t) ==
    /\ sthr[t].pc \in {"idle", "cas"}
    /\ sthr'[t].pc = "ret"
    /\ sthr'[t].op = "allocate"

\* C27: allocate(size, alignment) either returns null and leaves the offset
\* unchanged when the aligned request does not fit, or advances the offset
\* and returns a region that lies entirely inside the backing buffer and
\* overlaps no other region returned since the last reset(), also when
\* several threads call allocate concurrently.
C27_AllocateInsideAndDisjoint ==
    [][\A t \in StackThreads :
          StackAllocateReturns(t) =>
             IF sthr'[t].ret = NullPtr
               THEN top_' = top_ /\ ~Fits(top_, sthr'[t].req)
               ELSE LET r == [base |-> sthr'[t].ret - stack_begin,
                              size |-> sthr'[t].req]
                    IN  /\ top_' >= top_
                        /\ top_' >= r.base + r.size
                        /\ r.base + r.size <= StackSize
                        /\ \A i \in 1 .. Len(regions) :
                              ~Overlap(r, regions[i])]_vars

\* both threads were given a region of one aligned unit since the last
\* reset() and a third request was refused
C27_Witness ==
    /\ Len(regions) = 2
    /\ \A i \in 1 .. 2 : regions[i].size = MaxAlign
    /\ sthr["s1"].pc = "ret" /\ sthr["s1"].op = "allocate"
    /\ sthr["s1"].ret = NullPtr
    /\ sthr["s2"].pc = "ret" /\ sthr["s2"].ret # NullPtr

\* C28: exhaustion of a fixed-size pool does not make allocation fail:
\* when the pool selected for a request of size <= 4096 has no free slot,
\* MemoryManager::allocate degrades to the fallback allocator and still
\* returns a non-null block.
C28_ExhaustedPoolFallsBack ==
    \A t \in MmThreads :
       (/\ mm[t].pc = "ret"
        /\ mm[t].op = "allocate"
        /\ mm[t].size <= LargeMax) => mm[t].ret # NullBlock

\* the small pool is full and a request beyond the large pool was served by
\* the system allocator
C28_Witness ==
    /\ pools["small"] = 1 .. ClassSlots
    /\ \E t \in MmThreads :
          /\ mm[t].pc = "ret" /\ mm[t].op = "allocate"
          /\ mm[t].size > LargeMax
          /\ mm[t].ret # NullBlock

\* no thread is inside allocate or deallocate
Quiescent == \A t \in MmThreads : mm[t].pc = "idle"

\* C29: after any sequence of MemoryManager allocate / deallocate calls, the
\* peak_usage reported by get_stats() equals the largest value current
\* usage (total_allocated - total_deallocated) has reached so far; in
\* particular peak_usage >= current_usage at every quiescent point.
C29_PeakIsHighestUsage ==
    Quiescent =>
       /\ get_stats.peak_usage = mstat.high_water
       /\ get_stats.peak_usage >= get_stats.current_usage

\* three allocations were made, one block was given back, and the manager
\* is quiescent with usage below the highest usage reached
C29_Witness ==
    /\ Quiescent
    /\ mstat.calls = MaxCalls
    /\ get_stats.total_deallocated > 0
    /\ get_stats.current_usage < mstat.high_water

\* executeCommand is called with an empty or whitespace-only command
BlankCommandExecuted ==
    /\ tcall'.calls # tcall.calls
    /\ tcall'.op = "executeCommand"
    /\ \A i \in 1 .. Len(tcall'.command) : tcall'.command[i] \in Whitespace

\* C30: Terminal::executeCommand called with an empty or whitespace-only
\* command ("", "   ", "\t\n") does not add an entry to the command
\* history: getHistory().size() is the same before and after.
C30_BlankCommandNotRecorded ==
    [][BlankCommandExecuted => Len(getHistory') = Len(getHistory)]_vars

\* executeCommand("") was called after a command was recorded and the
\* history has kept its one entry
C30_Witness ==
    /\ tcall.op = "executeCommand"
    /\ tcall.command = <<>>
    /\ tcall.calls = 2
    /\ Len(getHistory) = 1

\* C33: every command name recognised as a built-in has a handler in
\* executeBuiltin: executeSync("help") is dispatched as a built-in and
\* returns state Completed with exit_code 0, like the other built-ins on
\* success.
C33_HelpHasHandler ==
    \A t \in Callers :
       (thr[t].pc = "builtin_ret" /\ thr[t].op = "help") =>
          thr[t].info.state = "Completed" /\ thr[t].info.exit_code = 0

\* one caller has run help and the other pwd, which returned Completed / 0
C33_Witness ==
    /\ thr["c1"].pc = "builtin_ret" /\ thr["c1"].op = "help"
    /\ thr["c2"].pc = "builtin_ret" /\ thr["c2"].op = "pwd"
    /\ thr["c2"].info.state = "Completed"

\* state and exit code of a ProcessInfo agree
StateAgreesWithExitCode(info) ==
    /\ info.state = "Completed" => info.exit_code = 0
    /\ info.state = "Failed" => info.exit_code # 0

\* C39: state and exit code agree in every ProcessInfo the shell produces,
\* whether from the I/O thread's reap check or from a built-in: state is
\* Completed only if exit_code = 0, and Failed only if exit_code # 0.
C39_StateAgreesWithExitCode ==
    /\ \A t \in Callers :
          thr[t].pc = "builtin_ret" => StateAgreesWithExitCode(thr[t].info)
    /\ \A o \in Objs :
          procs[o].life # "none" => StateAgreesWithExitCode(procs[o].info_)

\* exit has returned to one caller while the I/O thread has reaped a child
\* that exited with a non-zero status
C39_Witness ==
    /\ \E t \in Callers :
          thr[t].pc = "builtin_ret" /\ thr[t].op = "exit"
    /\ \E o \in Objs :
          procs[o].info_.state = "Failed" /\ procs[o].info_.exit_code = 1

\* the free slots the wrap-around loop of find_free_slot would look at
FreeBelowCursor == {i \in Slots : i < next_free_ /\ ~used_[i]}

C38_DeallocatedNeverExceedsAllocated ==
    /\ [](total_deallocated_ <= total_allocated_)
    /\ [][\A t \in MmThreads :
            (mm'[t].op = "deallocate" /\ ~mm'[t].released /\ mm'[t] # mm[t])
               => UNCHANGED <<total_allocated_, total_deallocated_,
                              peak_usage_>>]_vars

\* a block was allocated and released, and a second deallocate of the same
\* pointer, rejected by the pool, has gone through its statistics update
C38_Witness ==
    \E t \in MmThreads :
       /\ mm[t].op = "deallocate" /\ mm[t].pc = "ret"
       /\ ~mm[t].released
       /\ mm[t].ret # NullBlock
       /\ total_allocated_ > 0
       /\ blocks = {}

\* the bytes behind a block that belong to it alone: the slot of a pool
\* block, the whole request of a block from std::aligned_alloc
Provided(b, w) == IF b.ptr[1] = "system" THEN b.size ELSE w

\* the size bytes of b1 reach into the slot of b2, a later slot of the pool
ReachesInto(b1, b2, w) ==
    /\ b1.ptr[1] = b2.ptr[1] /\ b1.ptr[1] # "system"
    /\ SlotOffset(b1.ptr, w) < SlotOffset(b2.ptr, w)
    /\ SlotOffset(b1.ptr, w) + b1.size > SlotOffset(b2.ptr, w)

\* C37: every non-null block returned by MemoryManager::allocate(size)
\* provides at least size bytes of storage that no other live allocation
\* overlaps, for every size class and for the raw fallback (for one layout
\* of StorageBlock at least).
C37_BlockHoldsRequestedSize ==
    \E w \in StorageBlockSizes :
       \A b \in blocks :
          /\ Provided(b, w) >= b.size
          /\ \A b2 \in blocks : ~ReachesInto(b, b2, w)

\* a block of the small pool, one of the medium pool for one byte more than
\* the small limit, and a block from the system allocator are live
C37_Witness ==
    /\ \E b \in blocks : b.ptr[1] = "small" /\ b.size = SmallMax
    /\ \E b \in blocks : b.ptr[1] = "medium" /\ b.size = SmallMax + 1
    /\ \E b \in blocks : b.ptr[1] = "system"
    /\ \A t \in MmThreads : mm[t].pc = "idle"

\* C35: for every pid returned by executeAsync or executeInteractive, the
\* table entry stored under that key describes the same process:
\* getProcessInfo(pid).pid = pid while the entry exists, including when
\* several execute calls run concurrently.
C35_EntryCarriesItsKey ==
    \A pid \in hist.returned :
       pid \in DOMAIN active_processes_ => getProcessInfo(pid).pid = pid

\* two execute calls whose createProcess and fetch_add steps interleaved have
\* both returned, and both entries are still in the table
C35_Witness ==
    /\ hist.returned = {FirstPid, FirstPid + 1}
    /\ DOMAIN active_processes_ = {FirstPid, FirstPid + 1}
    /\ \A t \in Callers : thr[t].pc = "idle"
    /\ \E o \in Objs : hist.key_of[o] # procs[o].info_.pid

\* the last call was an append to stream s
Appending(s) == pio'.appends = pio.appends + 1 /\ pio'.stream = s

\* C32: ProcessIO never writes past its buffer: in every reachable state the
\* stored size of each stream is at most the capacity of its current buffer
\* and no copy has left its array; an append that would overflow the buffer
\* replaces it by a larger one, and after every append the buffer holds the
\* bytes stored before followed by the new chunk; this also holds after
\* clear() followed by further appends.
C32_AppendStaysInsideBuffer ==
    /\ [](/\ ~pio.overrun
          /\ \A s \in Streams : io_.size[s] <= Len(io_.cells[s]))
    /\ [][\A s \in Streams :
            Appending(s) =>
               /\ io_.size[s] + Len(pio'.data) > Len(io_.cells[s])
                    => Len(io_'.cells[s]) > Len(io_.cells[s])
               /\ SubSeq(io_'.cells[s], 1, io_'.size[s])
                    = Stored(s) \o pio'.data]_vars

\* after a clear(), two appends have filled stdout beyond twice BUFFER_SIZE:
\* the second one found a replaced buffer and had to replace it again
C32_Witness ==
    /\ pio.cleared
    /\ pio.op = "append" /\ pio.stream = "stdout"
    /\ io_.size["stdout"] > BUFFER_SIZE * 2
    /\ Len(Stored("stdout")) > Len(pio.data)

\* the threads inside io_thread_.join() of process o
Joining(o) ==
    {t \in Threads : thr[t].cur = o /\ thr[t].pc \in {"term_join", "dtor_wait"}}

\* the completion callback of a process has run at most once
NotifiedAtMostOnce == \A o \in Objs : hist.completions[o] <= 1

\* join() is called on an I/O thread that is still joinable, by one thread
JoinedAtMostOnce ==
    \A o \in Objs :
       Joining(o) # {} => (procs[o].joinable /\ Cardinality(Joining(o)) = 1)

\* a process with a callback that has ended, with its I/O thread gone and no
\* terminate() under way, has had its callback run
NotifiedWhenEnded ==
    \A o \in Objs :
       (/\ hist.kind[o] = "async"
        /\ procs[o].life = "alive"
        /\ procs[o].info_.state \in Terminal
        /\ iot[o].pc = "exited"
        /\ \A t \in Threads : thr[t].pc = "idle")
          => hist.completions[o] >= 1

\* C34: for every started ManagedProcess with a completion callback, the
\* callback is invoked exactly once when the process reaches a terminal
\* state, never twice, under every interleaving of terminate() (possibly
\* called from several threads) with the I/O thread's exit detection;
\* likewise the I/O thread is joined at most once.
C34_CompletionNotifiedOnce ==
    NotifiedAtMostOnce /\ JoinedAtMostOnce /\ NotifiedWhenEnded

\* terminate() has returned true after the I/O thread had detected the exit
\* of the child on its own, and both have run the completion callback
C34_Witness ==
    \E o \in Objs :
       /\ hist.kind[o] = "async"
       /\ hist.completions[o] = 2
       /\ iot[o].pc = "exited"
       /\ child[o].st = "reaped"
       /\ procs[o].info_.state = "Terminated"
       /\ \A t \in Callers : thr[t].pc = "idle"

\* the entry under pid holds a process that has reached a terminal state
CompleteEntry(pid) ==
    /\ pid \in DOMAIN active_processes_
    /\ procs[active_processes_[pid]].info_.state \in Terminal

\* C31: while the shell is initialized and not shut down, every process-table
\* entry whose process has reached a terminal state is eventually erased by
\* the cleanup thread, given fair scheduling; the cleanup thread never stops
\* scanning before shutdown().
C31_CleanupEventuallyErases ==
    /\ \A pid \in PidArgs :
          (cleanup_active_ /\ CompleteEntry(pid))
             ~> (pid \notin DOMAIN active_processes_ \/ ~cleanup_active_)
    /\ [](cleanup_active_ => thr[CleanupThread].pc \notin {"none", "cl_exited"})

\* with the shell still initialized, the cleanup pass has erased the entry of
\* a process whose exit the I/O thread had recorded, and is back in its wait
C31_Witness ==
    /\ cleanup_active_
    /\ thr[CleanupThread].pc = "cl_wait"
    /\ \E o \in Objs :
          /\ hist.key_of[o] \in hist.returned
          /\ hist.key_of[o] \notin DOMAIN active_processes_
          /\ child[o].st = "reaped"

\* thread t, holding processes_mutex_ exclusively, waits in io_thread_.join()
\* for the I/O thread of o, whose callback waits for that mutex
JoinsCallbackUnderLock(t, o) ==
    /\ writer = t
    /\ thr[t].cur = o /\ thr[t].pc \in {"term_join", "dtor_wait"}
    /\ iot[o].pc = "callback"

\* C36: the shell is deadlock-free: the cleanup pass, shutdown() and
\* terminateProcess always complete, even when a process's completion
\* callback, running on its I/O thread, calls back into the shell while one of
\* them holds processes_mutex_ and joins that I/O thread.
C36_ShellIsDeadlockFree ==
    /\ [](\A t \in Threads, o \in Objs : ~JoinsCallbackUnderLock(t, o))
    /\ (writer = CleanupThread) ~> (writer # CleanupThread)
    /\ (thr["c2"].pc # "idle") ~> (thr["c2"].pc = "idle")

\* the cleanup pass found the process complete while its completion callback
\* had not yet called the shell, took the lock and went into the join
C36_Witness ==
    \E o \in Objs :
       /\ JoinsCallbackUnderLock(CleanupThread, o)
       /\ "cl_erase" \in Range(thr[CleanupThread].stack)
       /\ procs[o].info_.state \in Terminal

\* C8: outside shutdown(), a table entry disappears only in the cleanup
\* pass, and the cleanup pass erases only an entry whose process is in state
\* Completed, Failed or Terminated while it is being erased.
C8_OnlyTerminalEntriesRemoved ==
    /\ [][\A k \in DOMAIN active_processes_ :
             k \notin DOMAIN active_processes_' =>
               \/ \E t \in Callers : thr[t].pc = "sd_erase"
               \/ /\ thr[CleanupThread].pc = "cl_erase"
                  /\ active_processes_[k] = thr[CleanupThread].cur]_vars
    /\ [](CleanupErasing =>
             LET p == procs[thr[CleanupThread].cur]
             IN  p.life = "alive" => p.info_.state \in Terminal)

\* the cleanup pass has destroyed a terminal process and removes its entry
C8_Witness ==
    /\ thr[CleanupThread].pc = "cl_erase"
    /\ \E k \in DOMAIN active_processes_ :
          active_processes_[k] = thr[CleanupThread].cur
    /\ \A t \in Callers : thr[t].pc \notin {"sd_joincl", "sd_lock", "sd_loop",
                                              "sd_clear", "sd_erase"}

====
